---- MODULE Spec2Model ----
(***************************************************************************)
(* Consent ledger (chaincode ConsentContract), the attack / revocation     *)
(* override layer and the resource retrieval route of the decentralized    *)
(* health database backend.                                                *)
(*                                                                         *)
(* Two specifications share the variables:                                 *)
(*   Spec          the chaincode alone, driven transaction by transaction  *)
(*                 from the empty world state (as the unit tests drive it) *)
(*   SpecRetrieve  the backend routes in front of a seeded ledger          *)
(***************************************************************************)
EXTENDS Integers, Sequences, FiniteSets, TLC

(***************************************************************************)
(* Bounds                                                                  *)
(***************************************************************************)
MaxTime == 1
MaxAudit == 1
MaxAuditLog == 2

Times == 0..MaxTime

(***************************************************************************)
(* Input alphabets                                                         *)
(***************************************************************************)
OrgIds == {"hosp", "lab"}
CallerIds == {"hosp", "HOSP", "lab", "LAB"}
ResourceIds == {"r1"}
QueryResourceIds == {"r1", "r2"}
\* A transaction id is a string of 64 hex characters; the model keeps it as
\* its first 8 characters and the rest, so that substring(0, 8) is computed
TxId(head, tail) == [head |-> head, tail |-> tail]
substring8(txId) == txId.head
Tx1 == TxId("0a1b2c3d", "e4")
TxIds == {Tx1}
\* transactions of the audit trail: two ids share their first 8 characters
AuditTxIds == {Tx1, TxId("0a1b2c3d", "f5"), TxId("9f8e7d6c", "e4")}
AccessTypeArgs == {"read", "READ", "exec"}
ExpiryArgs == {ToString(t) : t \in Times} \cup {""}
OrgMetaArgs == {"{}", "oops"}
RevocableOrgIds == {"lab"}
RevokeReasons == {"Security breach"}

GoodCid == "cid1"
GoodSha == "sha-good"
FhirTypes == {"Patient"}

None == "none"
NaN == -1

(***************************************************************************)
(* JavaScript helpers                                                      *)
(***************************************************************************)
\* String.prototype.toLowerCase on the identifiers of the model
toLowerCase(s) ==
    CASE s = "HOSP" -> "hosp"
      [] s = "LAB" -> "lab"
      [] s = "READ" -> "read"
      [] s = "ADMIN" -> "admin"
      [] OTHER -> s

\* !s || s.trim() === ''
IsBlank(s) == s \in {"", " "}

\* parseInt(s, 10) on a decimal string; NaN for a string with no leading digit
parseInt(s) ==
    IF \E n \in 0..(MaxTime + 1) : ToString(n) = s
    THEN CHOOSE n \in 0..(MaxTime + 1) : ToString(n) = s
    ELSE NaN

\* a < b on JavaScript numbers: every comparison with NaN is false
JsLess(a, b) == a # NaN /\ b # NaN /\ a < b

\* JSON.parse succeeds
JsonValid(s) == s = "{}"

\* msg.includes('does not exist')
IncludesDoesNotExist(msg) ==
    msg \in { "Resource <id> does not exist",
              "Organization <id> does not exist",
              "Owner organization <id> does not exist",
              "Grantee organization <id> does not exist",
              "Actor organization <id> does not exist" }

(***************************************************************************)
(* Chaincode stub: world state is a map from composite keys to records     *)
(***************************************************************************)
ORG_PREFIX == "ORG"
RESOURCE_PREFIX == "RESOURCE"
ACCESS_PREFIX == "ACCESS"
AUDIT_PREFIX == "AUDIT"

createCompositeKey(prefix, attrs) == <<prefix>> \o attrs

EmptyState == [k \in {} |-> None]

\* getState returns an empty buffer for an absent key
HasState(L, key) == key \in DOMAIN L
getState(L, key) == IF key \in DOMAIN L THEN L[key] ELSE None

putState(L, key, value) ==
    [k \in (DOMAIN L) \cup {key} |-> IF k = key THEN value ELSE L[k]]

NoEvent == [name |-> None]

\* A transaction either returns (new world state, return value, event) or throws
TxOk(L, ret, event) ==
    [ok |-> TRUE, state |-> L, ret |-> ret, error |-> None, event |-> event]
TxThrow(L, msg) ==
    [ok |-> FALSE, state |-> L, ret |-> None, error |-> msg, event |-> NoEvent]

(***************************************************************************)
(* ConsentContract                                                         *)
(***************************************************************************)
\* variant: an existing organization record is written over
registerOrg_Overwrite(L, tx, orgId, orgMeta) ==
    LET orgKey == createCompositeKey(ORG_PREFIX, <<orgId>>)
        org == [docType |-> "organization", orgId |-> orgId]
    IN  IF IsBlank(orgId) THEN TxThrow(L, "Organization ID is required")
        ELSE IF ~JsonValid(orgMeta) THEN TxThrow(L, "orgMeta must be valid JSON")
        ELSE TxOk(putState(L, orgKey, org), org, NoEvent)

registerOrg(L, tx, orgId, orgMeta) ==
    LET orgKey == createCompositeKey(ORG_PREFIX, <<orgId>>)
        org == [docType |-> "organization", orgId |-> orgId]
    IN  IF IsBlank(orgId) THEN TxThrow(L, "Organization ID is required")
        ELSE IF ~JsonValid(orgMeta) THEN TxThrow(L, "orgMeta must be valid JSON")
        ELSE IF HasState(L, orgKey) THEN TxThrow(L, "Organization <id> already exists")
        ELSE TxOk(putState(L, orgKey, org), org, NoEvent)

\* variant: the owner organization is not looked up
uploadMeta_NoOwnerCheck(L, tx, resourceId, ownerOrgId, cid, sha256, fhirType) ==
    LET orgKey == createCompositeKey(ORG_PREFIX, <<ownerOrgId>>)
        resourceKey == createCompositeKey(RESOURCE_PREFIX, <<resourceId>>)
        resource == [docType |-> "resource", resourceId |-> resourceId,
                     ownerOrgId |-> ownerOrgId, cid |-> cid, sha256 |-> sha256,
                     fhirType |-> fhirType]
    IN  IF IsBlank(resourceId) THEN TxThrow(L, "Resource ID is required")
        ELSE IF IsBlank(ownerOrgId) THEN TxThrow(L, "Owner Organization ID is required")
        ELSE IF IsBlank(cid) THEN TxThrow(L, "CID (Content Identifier) is required")
        ELSE IF IsBlank(sha256) THEN TxThrow(L, "SHA256 hash is required")
        ELSE IF IsBlank(fhirType) THEN TxThrow(L, "FHIR type is required")
        ELSE IF HasState(L, resourceKey)
             THEN TxThrow(L, "Resource <id> already exists")
        ELSE TxOk(putState(L, resourceKey, resource), resource, NoEvent)

\* variant: an existing resource record is written over
uploadMeta_Overwrite(L, tx, resourceId, ownerOrgId, cid, sha256, fhirType) ==
    LET orgKey == createCompositeKey(ORG_PREFIX, <<ownerOrgId>>)
        resourceKey == createCompositeKey(RESOURCE_PREFIX, <<resourceId>>)
        resource == [docType |-> "resource", resourceId |-> resourceId,
                     ownerOrgId |-> ownerOrgId, cid |-> cid, sha256 |-> sha256,
                     fhirType |-> fhirType]
    IN  IF IsBlank(resourceId) THEN TxThrow(L, "Resource ID is required")
        ELSE IF IsBlank(ownerOrgId) THEN TxThrow(L, "Owner Organization ID is required")
        ELSE IF IsBlank(cid) THEN TxThrow(L, "CID (Content Identifier) is required")
        ELSE IF IsBlank(sha256) THEN TxThrow(L, "SHA256 hash is required")
        ELSE IF IsBlank(fhirType) THEN TxThrow(L, "FHIR type is required")
        ELSE IF ~HasState(L, orgKey)
             THEN TxThrow(L, "Owner organization <id> does not exist")
        ELSE TxOk(putState(L, resourceKey, resource), resource, NoEvent)

uploadMeta(L, tx, resourceId, ownerOrgId, cid, sha256, fhirType) ==
    LET orgKey == createCompositeKey(ORG_PREFIX, <<ownerOrgId>>)
        resourceKey == createCompositeKey(RESOURCE_PREFIX, <<resourceId>>)
        resource == [docType |-> "resource", resourceId |-> resourceId,
                     ownerOrgId |-> ownerOrgId, cid |-> cid, sha256 |-> sha256,
                     fhirType |-> fhirType]
    IN  IF IsBlank(resourceId) THEN TxThrow(L, "Resource ID is required")
        ELSE IF IsBlank(ownerOrgId) THEN TxThrow(L, "Owner Organization ID is required")
        ELSE IF IsBlank(cid) THEN TxThrow(L, "CID (Content Identifier) is required")
        ELSE IF IsBlank(sha256) THEN TxThrow(L, "SHA256 hash is required")
        ELSE IF IsBlank(fhirType) THEN TxThrow(L, "FHIR type is required")
        ELSE IF ~HasState(L, orgKey)
             THEN TxThrow(L, "Owner organization <id> does not exist")
        ELSE IF HasState(L, resourceKey)
             THEN TxThrow(L, "Resource <id> already exists")
        ELSE TxOk(putState(L, resourceKey, resource), resource, NoEvent)

\* variant: an existing grant is only switched back on, its expiry and type kept
grantAccess_KeepExisting(L, tx, resourceId, granteeOrgId, expiryTimestamp, accessType) ==
    LET validAccessTypes == {"read", "write", "admin"}
        resourceKey == createCompositeKey(RESOURCE_PREFIX, <<resourceId>>)
        orgKey == createCompositeKey(ORG_PREFIX, <<granteeOrgId>>)
        accessKey == createCompositeKey(ACCESS_PREFIX, <<resourceId, granteeOrgId>>)
        accessGrant == [docType |-> "accessGrant", resourceId |-> resourceId,
                        granteeOrgId |-> granteeOrgId,
                        expiryTimestamp |-> parseInt(expiryTimestamp),
                        accessType |-> toLowerCase(accessType),
                        isActive |-> TRUE]
        eventPayload == [name |-> "AccessGranted", eventType |-> "AccessGranted",
                         resourceId |-> resourceId, granteeOrgId |-> granteeOrgId,
                         accessType |-> toLowerCase(accessType),
                         expiryTimestamp |-> parseInt(expiryTimestamp),
                         txId |-> tx.txId]
        kept == IF HasState(L, accessKey)
                THEN [getState(L, accessKey) EXCEPT !.isActive = TRUE]
                ELSE accessGrant
    IN  IF IsBlank(resourceId) THEN TxThrow(L, "Resource ID is required")
        ELSE IF IsBlank(granteeOrgId)
             THEN TxThrow(L, "Grantee Organization ID is required")
        ELSE IF expiryTimestamp = "" THEN TxThrow(L, "Expiry timestamp is required")
        ELSE IF IsBlank(accessType) THEN TxThrow(L, "Access type is required")
        ELSE IF toLowerCase(accessType) \notin validAccessTypes
             THEN TxThrow(L, "Invalid access type. Must be one of: read, write, admin")
        ELSE IF ~HasState(L, resourceKey)
             THEN TxThrow(L, "Resource <id> does not exist")
        ELSE IF ~HasState(L, orgKey)
             THEN TxThrow(L, "Grantee organization <id> does not exist")
        ELSE TxOk(putState(L, accessKey, kept), kept, eventPayload)

\* variant: the grantee organization is not looked up
grantAccess_NoGranteeCheck(L, tx, resourceId, granteeOrgId, expiryTimestamp, accessType) ==
    LET validAccessTypes == {"read", "write", "admin"}
        resourceKey == createCompositeKey(RESOURCE_PREFIX, <<resourceId>>)
        orgKey == createCompositeKey(ORG_PREFIX, <<granteeOrgId>>)
        accessKey == createCompositeKey(ACCESS_PREFIX, <<resourceId, granteeOrgId>>)
        accessGrant == [docType |-> "accessGrant", resourceId |-> resourceId,
                        granteeOrgId |-> granteeOrgId,
                        expiryTimestamp |-> parseInt(expiryTimestamp),
                        accessType |-> toLowerCase(accessType),
                        isActive |-> TRUE]
        eventPayload == [name |-> "AccessGranted", eventType |-> "AccessGranted",
                         resourceId |-> resourceId, granteeOrgId |-> granteeOrgId,
                         accessType |-> toLowerCase(accessType),
                         expiryTimestamp |-> parseInt(expiryTimestamp),
                         txId |-> tx.txId]
    IN  IF IsBlank(resourceId) THEN TxThrow(L, "Resource ID is required")
        ELSE IF IsBlank(granteeOrgId)
             THEN TxThrow(L, "Grantee Organization ID is required")
        ELSE IF expiryTimestamp = "" THEN TxThrow(L, "Expiry timestamp is required")
        ELSE IF IsBlank(accessType) THEN TxThrow(L, "Access type is required")
        ELSE IF toLowerCase(accessType) \notin validAccessTypes
             THEN TxThrow(L, "Invalid access type. Must be one of: read, write, admin")
        ELSE IF ~HasState(L, resourceKey)
             THEN TxThrow(L, "Resource <id> does not exist")
        ELSE TxOk(putState(L, accessKey, accessGrant), accessGrant, eventPayload)

grantAccess(L, tx, resourceId, granteeOrgId, expiryTimestamp, accessType) ==
    LET validAccessTypes == {"read", "write", "admin"}
        resourceKey == createCompositeKey(RESOURCE_PREFIX, <<resourceId>>)
        orgKey == createCompositeKey(ORG_PREFIX, <<granteeOrgId>>)
        accessKey == createCompositeKey(ACCESS_PREFIX, <<resourceId, granteeOrgId>>)
        accessGrant == [docType |-> "accessGrant", resourceId |-> resourceId,
                        granteeOrgId |-> granteeOrgId,
                        expiryTimestamp |-> parseInt(expiryTimestamp),
                        accessType |-> toLowerCase(accessType),
                        isActive |-> TRUE]
        eventPayload == [name |-> "AccessGranted", eventType |-> "AccessGranted",
                         resourceId |-> resourceId, granteeOrgId |-> granteeOrgId,
                         accessType |-> toLowerCase(accessType),
                         expiryTimestamp |-> parseInt(expiryTimestamp),
                         txId |-> tx.txId]
    IN  IF IsBlank(resourceId) THEN TxThrow(L, "Resource ID is required")
        ELSE IF IsBlank(granteeOrgId)
             THEN TxThrow(L, "Grantee Organization ID is required")
        ELSE IF expiryTimestamp = "" THEN TxThrow(L, "Expiry timestamp is required")
        ELSE IF IsBlank(accessType) THEN TxThrow(L, "Access type is required")
        ELSE IF toLowerCase(accessType) \notin validAccessTypes
             THEN TxThrow(L, "Invalid access type. Must be one of: read, write, admin")
        ELSE IF ~HasState(L, resourceKey)
             THEN TxThrow(L, "Resource <id> does not exist")
        ELSE IF ~HasState(L, orgKey)
             THEN TxThrow(L, "Grantee organization <id> does not exist")
        ELSE TxOk(putState(L, accessKey, accessGrant), accessGrant, eventPayload)

\* variant: revoking an inactive grant succeeds again
revokeAccess_Idempotent(L, tx, resourceId, granteeOrgId) ==
    LET accessKey == createCompositeKey(ACCESS_PREFIX, <<resourceId, granteeOrgId>>)
        accessGrant == getState(L, accessKey)
        revoked == [accessGrant EXCEPT !.isActive = FALSE]
        eventPayload == [name |-> "AccessRevoked", eventType |-> "AccessRevoked",
                         resourceId |-> resourceId, granteeOrgId |-> granteeOrgId,
                         txId |-> tx.txId]
    IN  IF IsBlank(resourceId) THEN TxThrow(L, "Resource ID is required")
        ELSE IF IsBlank(granteeOrgId)
             THEN TxThrow(L, "Grantee Organization ID is required")
        ELSE IF ~HasState(L, accessKey)
             THEN TxThrow(L, "No access grant found for organization <id> on resource <id>")
        ELSE TxOk(putState(L, accessKey, revoked), revoked, eventPayload)

revokeAccess(L, tx, resourceId, granteeOrgId) ==
    LET accessKey == createCompositeKey(ACCESS_PREFIX, <<resourceId, granteeOrgId>>)
        accessGrant == getState(L, accessKey)
        revoked == [accessGrant EXCEPT !.isActive = FALSE]
        eventPayload == [name |-> "AccessRevoked", eventType |-> "AccessRevoked",
                         resourceId |-> resourceId, granteeOrgId |-> granteeOrgId,
                         txId |-> tx.txId]
    IN  IF IsBlank(resourceId) THEN TxThrow(L, "Resource ID is required")
        ELSE IF IsBlank(granteeOrgId)
             THEN TxThrow(L, "Grantee Organization ID is required")
        ELSE IF ~HasState(L, accessKey)
             THEN TxThrow(L, "No access grant found for organization <id> on resource <id>")
        ELSE IF ~accessGrant.isActive
             THEN TxThrow(L, "Access grant is already revoked")
        ELSE TxOk(putState(L, accessKey, revoked), revoked, eventPayload)

\* variant: only the owner or an organization holding a grant can be logged
logAccess_RequireAccess(L, tx, resourceId, actorOrgId, action, timestamp) ==
    LET resourceKey == createCompositeKey(RESOURCE_PREFIX, <<resourceId>>)
        orgKey == createCompositeKey(ORG_PREFIX, <<actorOrgId>>)
        accessKey == createCompositeKey(ACCESS_PREFIX, <<resourceId, actorOrgId>>)
        auditId == <<resourceId, actorOrgId, timestamp, substring8(tx.txId)>>
        auditKey == createCompositeKey(AUDIT_PREFIX, <<resourceId, auditId>>)
        auditLog == [docType |-> "auditLog", auditId |-> auditId,
                     resourceId |-> resourceId, actorOrgId |-> actorOrgId,
                     action |-> action, accessTimestamp |-> parseInt(timestamp),
                     txId |-> tx.txId]
        eventPayload == [name |-> "AccessLogged", eventType |-> "AccessLogged",
                         resourceId |-> resourceId, actorOrgId |-> actorOrgId,
                         action |-> action, accessTimestamp |-> parseInt(timestamp),
                         txId |-> tx.txId]
    IN  IF ~HasState(L, resourceKey)
        THEN TxThrow(L, "Resource <id> does not exist")
        ELSE IF ~HasState(L, orgKey)
             THEN TxThrow(L, "Actor organization <id> does not exist")
        ELSE IF getState(L, resourceKey).ownerOrgId # actorOrgId
                /\ ~HasState(L, accessKey)
             THEN TxThrow(L, "No access grant found")
        ELSE TxOk(putState(L, auditKey, auditLog), auditLog, eventPayload)

logAccess(L, tx, resourceId, actorOrgId, action, timestamp) ==
    LET resourceKey == createCompositeKey(RESOURCE_PREFIX, <<resourceId>>)
        orgKey == createCompositeKey(ORG_PREFIX, <<actorOrgId>>)
        auditId == <<resourceId, actorOrgId, timestamp, substring8(tx.txId)>>
        auditKey == createCompositeKey(AUDIT_PREFIX, <<resourceId, auditId>>)
        auditLog == [docType |-> "auditLog", auditId |-> auditId,
                     resourceId |-> resourceId, actorOrgId |-> actorOrgId,
                     action |-> action, accessTimestamp |-> parseInt(timestamp),
                     txId |-> tx.txId]
        eventPayload == [name |-> "AccessLogged", eventType |-> "AccessLogged",
                         resourceId |-> resourceId, actorOrgId |-> actorOrgId,
                         action |-> action, accessTimestamp |-> parseInt(timestamp),
                         txId |-> tx.txId]
    IN  IF IsBlank(resourceId) THEN TxThrow(L, "Resource ID is required")
        ELSE IF IsBlank(actorOrgId)
             THEN TxThrow(L, "Actor Organization ID is required")
        ELSE IF IsBlank(action) THEN TxThrow(L, "Action is required")
        ELSE IF timestamp = "" THEN TxThrow(L, "Timestamp is required")
        ELSE IF ~HasState(L, resourceKey)
             THEN TxThrow(L, "Resource <id> does not exist")
        ELSE IF ~HasState(L, orgKey)
             THEN TxThrow(L, "Actor organization <id> does not exist")
        ELSE TxOk(putState(L, auditKey, auditLog), auditLog, eventPayload)

queryResource(L, resourceId) ==
    LET resourceKey == createCompositeKey(RESOURCE_PREFIX, <<resourceId>>)
    IN  IF ~HasState(L, resourceKey)
        THEN TxThrow(L, "Resource <id> does not exist")
        ELSE TxOk(L, getState(L, resourceKey), NoEvent)

\* checkAccess returns a decision object; absent fields are undefined (None)
Decision(hasAccess, isOwner, accessType, expiryTimestamp, status, reason) ==
    [hasAccess |-> hasAccess, isOwner |-> isOwner, accessType |-> accessType,
     expiryTimestamp |-> expiryTimestamp, status |-> status, reason |-> reason]

\* variant: the expiry is compared before the active flag is read
checkAccess_ExpiryFirst(L, tx, resourceId, orgId) ==
    LET resourceKey == createCompositeKey(RESOURCE_PREFIX, <<resourceId>>)
        resource == getState(L, resourceKey)
        accessKey == createCompositeKey(ACCESS_PREFIX, <<resourceId, orgId>>)
        accessGrant == getState(L, accessKey)
        currentTime == tx.time
    IN  IF ~HasState(L, resourceKey)
        THEN TxThrow(L, "Resource <id> does not exist")
        ELSE IF resource.ownerOrgId = orgId
        THEN TxOk(L, Decision(TRUE, TRUE, "owner", None, None, None), NoEvent)
        ELSE IF ~HasState(L, accessKey)
        THEN TxOk(L, Decision(FALSE, None, None, None, None,
                              "No access grant found"), NoEvent)
        ELSE IF JsLess(accessGrant.expiryTimestamp, currentTime)
        THEN TxOk(L, Decision(FALSE, None, None, None, None,
                              "Access has expired"), NoEvent)
        ELSE IF ~accessGrant.isActive
        THEN TxOk(L, Decision(FALSE, None, None, None, None,
                              "Access has been revoked"), NoEvent)
        ELSE TxOk(L, Decision(TRUE, FALSE, accessGrant.accessType,
                              accessGrant.expiryTimestamp, None, None), NoEvent)

\* variant: a grant is expired from the instant of its expiry on
checkAccess_ExpiryInclusive(L, tx, resourceId, orgId) ==
    LET resourceKey == createCompositeKey(RESOURCE_PREFIX, <<resourceId>>)
        resource == getState(L, resourceKey)
        accessKey == createCompositeKey(ACCESS_PREFIX, <<resourceId, orgId>>)
        accessGrant == getState(L, accessKey)
        currentTime == tx.time
    IN  IF ~HasState(L, resourceKey)
        THEN TxThrow(L, "Resource <id> does not exist")
        ELSE IF resource.ownerOrgId = orgId
        THEN TxOk(L, Decision(TRUE, TRUE, "owner", None, None, None), NoEvent)
        ELSE IF ~HasState(L, accessKey)
        THEN TxOk(L, Decision(FALSE, None, None, None, None,
                              "No access grant found"), NoEvent)
        ELSE IF ~accessGrant.isActive
        THEN TxOk(L, Decision(FALSE, None, None, None, None,
                              "Access has been revoked"), NoEvent)
        ELSE IF ~JsLess(currentTime, accessGrant.expiryTimestamp)
        THEN TxOk(L, Decision(FALSE, None, None, None, None,
                              "Access has expired"), NoEvent)
        ELSE TxOk(L, Decision(TRUE, FALSE, accessGrant.accessType,
                              accessGrant.expiryTimestamp, None, None), NoEvent)

\* variant: the expiry comparison is left out
checkAccess_NoExpiry(L, tx, resourceId, orgId) ==
    LET resourceKey == createCompositeKey(RESOURCE_PREFIX, <<resourceId>>)
        resource == getState(L, resourceKey)
        accessKey == createCompositeKey(ACCESS_PREFIX, <<resourceId, orgId>>)
        accessGrant == getState(L, accessKey)
    IN  IF ~HasState(L, resourceKey)
        THEN TxThrow(L, "Resource <id> does not exist")
        ELSE IF resource.ownerOrgId = orgId
        THEN TxOk(L, Decision(TRUE, TRUE, "owner", None, None, None), NoEvent)
        ELSE IF ~HasState(L, accessKey)
        THEN TxOk(L, Decision(FALSE, None, None, None, None,
                              "No access grant found"), NoEvent)
        ELSE IF ~accessGrant.isActive
        THEN TxOk(L, Decision(FALSE, None, None, None, None,
                              "Access has been revoked"), NoEvent)
        ELSE TxOk(L, Decision(TRUE, FALSE, accessGrant.accessType,
                              accessGrant.expiryTimestamp, None, None), NoEvent)

\* variant: the grant record is evaluated before the owner comparison
checkAccess_GrantFirst(L, tx, resourceId, orgId) ==
    LET resourceKey == createCompositeKey(RESOURCE_PREFIX, <<resourceId>>)
        resource == getState(L, resourceKey)
        accessKey == createCompositeKey(ACCESS_PREFIX, <<resourceId, orgId>>)
        accessGrant == getState(L, accessKey)
        currentTime == tx.time
    IN  IF ~HasState(L, resourceKey)
        THEN TxThrow(L, "Resource <id> does not exist")
        ELSE IF HasState(L, accessKey) /\ ~accessGrant.isActive
        THEN TxOk(L, Decision(FALSE, None, None, None, None,
                              "Access has been revoked"), NoEvent)
        ELSE IF HasState(L, accessKey)
                /\ JsLess(accessGrant.expiryTimestamp, currentTime)
        THEN TxOk(L, Decision(FALSE, None, None, None, None,
                              "Access has expired"), NoEvent)
        ELSE IF resource.ownerOrgId = orgId
        THEN TxOk(L, Decision(TRUE, TRUE, "owner", None, None, None), NoEvent)
        ELSE IF ~HasState(L, accessKey)
        THEN TxOk(L, Decision(FALSE, None, None, None, None,
                              "No access grant found"), NoEvent)
        ELSE TxOk(L, Decision(TRUE, FALSE, accessGrant.accessType,
                              accessGrant.expiryTimestamp, None, None), NoEvent)

checkAccess(L, tx, resourceId, orgId) ==
    LET resourceKey == createCompositeKey(RESOURCE_PREFIX, <<resourceId>>)
        resource == getState(L, resourceKey)
        accessKey == createCompositeKey(ACCESS_PREFIX, <<resourceId, orgId>>)
        accessGrant == getState(L, accessKey)
        currentTime == tx.time
    IN  IF ~HasState(L, resourceKey)
        THEN TxThrow(L, "Resource <id> does not exist")
        ELSE IF resource.ownerOrgId = orgId
        THEN TxOk(L, Decision(TRUE, TRUE, "owner", None, None, None), NoEvent)
        ELSE IF ~HasState(L, accessKey)
        THEN TxOk(L, Decision(FALSE, None, None, None, None,
                              "No access grant found"), NoEvent)
        ELSE IF ~accessGrant.isActive
        THEN TxOk(L, Decision(FALSE, None, None, None, None,
                              "Access has been revoked"), NoEvent)
        ELSE IF JsLess(accessGrant.expiryTimestamp, currentTime)
        THEN TxOk(L, Decision(FALSE, None, None, None, None,
                              "Access has expired"), NoEvent)
        ELSE TxOk(L, Decision(TRUE, FALSE, accessGrant.accessType,
                              accessGrant.expiryTimestamp, None, None), NoEvent)

\* revokeOrg / reinstateOrg: called by the tests and by the attack routes, but
\* absent from the contract source; modelled from the specification
\* org.isRevoked of a stored organization (undefined reads as false)
IsRevoked(org) == "isRevoked" \in DOMAIN org /\ org.isRevoked

\* { ...org, isRevoked: flag }
WithRevoked(org, flag) ==
    [k \in (DOMAIN org) \cup {"isRevoked"} |->
        IF k = "isRevoked" THEN flag ELSE org[k]]

\* variant: an unknown organization cannot be revoked
revokeOrg_RequireExisting(L, tx, orgId, reason, timestamp) ==
    LET orgKey == createCompositeKey(ORG_PREFIX, <<orgId>>)
        existing == getState(L, orgKey)
        org == [k \in (DOMAIN existing) \cup {"isRevoked", "revocationReason"} |->
                   IF k = "isRevoked" THEN TRUE
                   ELSE IF k = "revocationReason" THEN reason
                   ELSE existing[k]]
        eventPayload == [name |-> "OrgRevoked", eventType |-> "OrgRevoked",
                         orgId |-> orgId, reason |-> reason, txId |-> tx.txId]
    IN  IF IsBlank(orgId) THEN TxThrow(L, "Organization ID is required")
        ELSE IF ~HasState(L, orgKey)
             THEN TxThrow(L, "Organization <id> does not exist")
        ELSE TxOk(putState(L, orgKey, org), org, eventPayload)

revokeOrg(L, tx, orgId, reason, timestamp) ==
    LET orgKey == createCompositeKey(ORG_PREFIX, <<orgId>>)
        existing == getState(L, orgKey)
        base == IF HasState(L, orgKey) THEN existing
                ELSE [docType |-> "organization", orgId |-> orgId]
        org == [k \in (DOMAIN base) \cup {"isRevoked", "revocationReason"} |->
                   IF k = "isRevoked" THEN TRUE
                   ELSE IF k = "revocationReason" THEN reason
                   ELSE base[k]]
        eventPayload == [name |-> "OrgRevoked", eventType |-> "OrgRevoked",
                         orgId |-> orgId, reason |-> reason, txId |-> tx.txId]
    IN  IF IsBlank(orgId) THEN TxThrow(L, "Organization ID is required")
        ELSE TxOk(putState(L, orgKey, org), org, eventPayload)

\* variant: reinstating an organization that is not revoked succeeds
reinstateOrg_Idempotent(L, tx, orgId) ==
    LET orgKey == createCompositeKey(ORG_PREFIX, <<orgId>>)
        existing == getState(L, orgKey)
        org == WithRevoked(existing, FALSE)
        eventPayload == [name |-> "OrgReinstated", eventType |-> "OrgReinstated",
                         orgId |-> orgId, txId |-> tx.txId]
    IN  IF IsBlank(orgId) THEN TxThrow(L, "Organization ID is required")
        ELSE IF ~HasState(L, orgKey)
             THEN TxThrow(L, "Organization <id> does not exist")
        ELSE TxOk(putState(L, orgKey, org), org, eventPayload)

reinstateOrg(L, tx, orgId) ==
    LET orgKey == createCompositeKey(ORG_PREFIX, <<orgId>>)
        existing == getState(L, orgKey)
        org == WithRevoked(existing, FALSE)
        eventPayload == [name |-> "OrgReinstated", eventType |-> "OrgReinstated",
                         orgId |-> orgId, txId |-> tx.txId]
    IN  IF IsBlank(orgId) THEN TxThrow(L, "Organization ID is required")
        ELSE IF ~HasState(L, orgKey)
             THEN TxThrow(L, "Organization <id> does not exist")
        ELSE IF ~IsRevoked(existing)
             THEN TxThrow(L, "Organization <id> is not revoked")
        ELSE TxOk(putState(L, orgKey, org), org, eventPayload)

\* Ledger-side revocation flag of an organization (false when unregistered)
LedgerRevoked(L, orgId) ==
    LET orgKey == createCompositeKey(ORG_PREFIX, <<orgId>>)
    IN  HasState(L, orgKey) /\ IsRevoked(getState(L, orgKey))

(***************************************************************************)
(* State                                                                   *)
(***************************************************************************)
VARIABLES
    ledger,        \* world state of the consent chaincode
    attackState,   \* attack.js: Map orgId -> {active, attackType}
    revokedOrgs,   \* attack.js: Set of revoked org ids
    contract,      \* fabric-client.js: cached contract ("null" until connected)
    useLocalIpfs,  \* resource.js: USE_LOCAL_IPFS
    pending,       \* attack routes suspended at await fabricClient.submitTransaction
    reply          \* result of the last transaction / HTTP request

vars == <<ledger, attackState, revokedOrgs, contract, useLocalIpfs, pending, reply>>

backendVars == <<attackState, revokedOrgs, contract, useLocalIpfs, pending>>

NoReply == [fn |-> None]

AuditCount(L) == Cardinality({k \in DOMAIN L : k[1] = AUDIT_PREFIX})

Init ==
    /\ ledger = EmptyState
    /\ attackState = EmptyState
    /\ revokedOrgs = {}
    /\ contract = "fabric"
    /\ useLocalIpfs = FALSE
    /\ pending = {}
    /\ reply = NoReply

(***************************************************************************)
(* Chaincode transactions (each is one invocation of the contract)         *)
(***************************************************************************)
\* outcome of a transaction: commit its writes, hand back result and event
Invoke(fn, res) ==
    /\ ledger' = res.state
    /\ reply' = [fn |-> fn, ok |-> res.ok, ret |-> res.ret,
                 error |-> res.error, event |-> res.event]
    /\ UNCHANGED backendVars

\* the same, the reply also telling whether the written key held a record
InvokeOn(fn, res, key) ==
    /\ ledger' = res.state
    /\ reply' = [fn |-> fn, ok |-> res.ok, ret |-> res.ret,
                 error |-> res.error, event |-> res.event,
                 existed |-> HasState(ledger, key)]
    /\ UNCHANGED backendVars

TxCtx == [time : Times, txId : TxIds]

\* The stored records keep no creation timestamps, so the commit time of a
\* write does not show in the world state: one commit time stands for all
WriteTxCtx == {tx \in TxCtx : tx.time = 0}

RegisterOrg ==
    \E tx \in WriteTxCtx, orgId \in OrgIds, orgMeta \in OrgMetaArgs :
        Invoke("registerOrg", registerOrg(ledger, tx, orgId, orgMeta))

UploadMeta ==
    \E tx \in WriteTxCtx, resourceId \in ResourceIds, ownerOrgId \in OrgIds,
       fhirType \in FhirTypes :
        Invoke("uploadMeta",
               uploadMeta(ledger, tx, resourceId, ownerOrgId, GoodCid, GoodSha, fhirType))

GrantAccess ==
    \E tx \in WriteTxCtx, resourceId \in ResourceIds, granteeOrgId \in OrgIds,
       expiryTimestamp \in ExpiryArgs, accessType \in AccessTypeArgs :
        InvokeOn("grantAccess",
                 grantAccess(ledger, tx, resourceId, granteeOrgId, expiryTimestamp,
                             accessType),
                 createCompositeKey(ACCESS_PREFIX, <<resourceId, granteeOrgId>>))

RevokeAccess ==
    \E tx \in WriteTxCtx, resourceId \in ResourceIds, granteeOrgId \in OrgIds :
        Invoke("revokeAccess", revokeAccess(ledger, tx, resourceId, granteeOrgId))

LogAccess ==
    /\ AuditCount(ledger) < MaxAudit
    /\ \E tx \in WriteTxCtx, resourceId \in ResourceIds, actorOrgId \in OrgIds :
        Invoke("logAccess",
               logAccess(ledger, tx, resourceId, actorOrgId, "retrieve",
                         ToString(MaxTime)))

RevokeOrg ==
    \E tx \in WriteTxCtx, orgId \in RevocableOrgIds, reason \in RevokeReasons :
        InvokeOn("revokeOrg",
                 revokeOrg(ledger, tx, orgId, reason, ToString(tx.time)),
                 createCompositeKey(ORG_PREFIX, <<orgId>>))

ReinstateOrg ==
    \E tx \in WriteTxCtx, orgId \in RevocableOrgIds :
        Invoke("reinstateOrg", reinstateOrg(ledger, tx, orgId))

\* evaluate checkAccess: read-only, the reply records the query and its answer
CheckAccess ==
    \E tx \in TxCtx, resourceId \in ResourceIds, orgId \in CallerIds :
        LET res == checkAccess(ledger, tx, resourceId, orgId)
        IN  /\ reply' = [fn |-> "checkAccess", ok |-> res.ok, ret |-> res.ret,
                         error |-> res.error, event |-> res.event,
                         resourceId |-> resourceId, orgId |-> orgId,
                         time |-> tx.time]
            /\ UNCHANGED <<ledger, backendVars>>

Next ==
    \/ RegisterOrg
    \/ UploadMeta
    \/ GrantAccess
    \/ RevokeAccess
    \/ LogAccess
    \/ RevokeOrg
    \/ ReinstateOrg
    \/ CheckAccess

Spec == Init /\ [][Next]_vars

(***************************************************************************)
(* fabric-client.js                                                        *)
(***************************************************************************)
\* test-config.json written by setup-test-data.js, read by the stub contract
TestConfig ==
    [resourceId |-> "r1", ownerOrg |-> "hosp", granteeOrg |-> "lab",
     cid |-> GoodCid, sha256 |-> GoodSha, fhirType |-> "Patient"]
\* no test-config.json on disk: testConfig stays null
NoTestConfig ==
    [resourceId |-> None, ownerOrg |-> None, granteeOrg |-> None,
     cid |-> None, sha256 |-> None, fhirType |-> None]
TestConfigs == {NoTestConfig, TestConfig}

StubGrantTtl == 86400

\* connect(): the cached contract, else a fresh attempt that either connects
\* (and caches the contract) or falls back to the stub contract; "down" is a
\* connected contract whose call fails
ConnectTargets(cached) ==
    IF cached = "fabric" THEN {"fabric", "down"} ELSE {"fabric", "down", "stub"}

\* createStubContract() reads test-config.json each time it is built
StubConfigs(target) == IF target = "stub" THEN TestConfigs ELSE {NoTestConfig}

AfterConnect(cached, target) == IF target = "stub" THEN cached ELSE "fabric"

\* submitTransaction / evaluateTransaction rethrow with a prefix
FabricError(prefix, cause) == [prefix |-> prefix, cause |-> cause]

\* variant: the message is compared whole, so the rethrow's prefix hides it
MessageIsDoesNotExist(err) == err.prefix = "" /\ IncludesDoesNotExist(err.cause)

\* fabricError.message.includes('does not exist')
MessageIncludesDoesNotExist(err) == IncludesDoesNotExist(err.cause)

\* createStubContract().evaluateTransaction('checkAccess', ...)
StubCheckAccess(testConfig, resourceId, orgId, now) ==
    IF testConfig # NoTestConfig /\ resourceId = testConfig.resourceId
       /\ orgId = testConfig.ownerOrg
    THEN Decision(TRUE, TRUE, "owner", None, None, None)
    ELSE IF testConfig # NoTestConfig /\ resourceId = testConfig.resourceId
            /\ orgId = testConfig.granteeOrg
    THEN Decision(TRUE, FALSE, "read", now + StubGrantTtl, None, None)
    ELSE IF orgId = "org1" \/ orgId = "org2"
    THEN Decision(TRUE, orgId = "org1", IF orgId = "org1" THEN "owner" ELSE "read",
                  None, None, None)
    ELSE Decision(FALSE, None, None, None, None, "No access grant found")

\* createStubContract().evaluateTransaction('queryResource', ...)
StubQueryResource(testConfig, resourceId) ==
    IF testConfig # NoTestConfig /\ resourceId = testConfig.resourceId
    THEN TxOk(EmptyState,
              [resourceId |-> testConfig.resourceId, ownerOrgId |-> testConfig.ownerOrg,
               cid |-> testConfig.cid, sha256 |-> testConfig.sha256,
               fhirType |-> testConfig.fhirType], NoEvent)
    ELSE TxThrow(EmptyState, "Resource <id> does not exist")

\* evaluateTransaction('checkAccess', [resourceId, orgId]) against the target
EvaluateCheckAccess(L, target, testConfig, now, resourceId, orgId) ==
    IF target = "down"
    THEN [ok |-> FALSE, ret |-> None,
          error |-> FabricError("Fabric query failed: ", "peer unavailable")]
    ELSE IF target = "stub"
    THEN [ok |-> TRUE, ret |-> StubCheckAccess(testConfig, resourceId, orgId, now),
          error |-> None]
    ELSE LET res == checkAccess(L, [time |-> now, txId |-> Tx1], resourceId, orgId)
         IN  IF res.ok THEN [ok |-> TRUE, ret |-> res.ret, error |-> None]
             ELSE [ok |-> FALSE, ret |-> None,
                   error |-> FabricError("Fabric query failed: ", res.error)]

\* evaluateTransaction('queryResource', [resourceId]) against the target
EvaluateQueryResource(L, target, testConfig, resourceId) ==
    IF target = "down"
    THEN [ok |-> FALSE, ret |-> None,
          error |-> FabricError("Fabric query failed: ", "peer unavailable")]
    ELSE LET res == IF target = "stub" THEN StubQueryResource(testConfig, resourceId)
                    ELSE queryResource(L, resourceId)
         IN  IF res.ok THEN [ok |-> TRUE, ret |-> res.ret, error |-> None]
             ELSE [ok |-> FALSE, ret |-> None,
                   error |-> FabricError("Fabric query failed: ", res.error)]

(***************************************************************************)
(* attack.js: runtime override layer                                       *)
(***************************************************************************)
ValidAttackTypes == {"revoked", "compromised", "expired", "unauthorized"}

isOrgRevoked(orgId) ==
    \/ orgId \in revokedOrgs
    \/ (orgId \in DOMAIN attackState /\ attackState[orgId].active)

AttackEntry(orgId, attackType) ==
    [orgId |-> orgId, active |-> TRUE, attackType |-> attackType]

MapSet(m, key, value) ==
    [k \in (DOMAIN m) \cup {key} |-> IF k = key THEN value ELSE m[k]]
MapDelete(m, key) == [k \in (DOMAIN m) \ {key} |-> m[k]]

RouteReply(fn, status, body) == [fn |-> fn, status |-> status, body |-> body]

\* POST /simulate-attack
ToggleAttack(orgId, active, attackType) ==
    /\ IF orgId = ""
       THEN /\ reply' = RouteReply("POST /simulate-attack", 400, "orgId is required")
            /\ UNCHANGED <<attackState, revokedOrgs>>
       ELSE IF attackType \notin ValidAttackTypes
       THEN /\ reply' = RouteReply("POST /simulate-attack", 400, "Invalid attack type")
            /\ UNCHANGED <<attackState, revokedOrgs>>
       ELSE IF active
       THEN /\ attackState' = MapSet(attackState, orgId, AttackEntry(orgId, attackType))
            /\ revokedOrgs' = IF attackType = "revoked"
                              THEN revokedOrgs \cup {orgId} ELSE revokedOrgs
            /\ reply' = RouteReply("POST /simulate-attack", 200,
                                   [orgId |-> orgId, attackActive |-> TRUE,
                                    attackType |-> attackType])
       ELSE /\ attackState' = MapDelete(attackState, orgId)
            /\ revokedOrgs' = revokedOrgs \ {orgId}
            /\ reply' = RouteReply("POST /simulate-attack", 200,
                                   [orgId |-> orgId, attackActive |-> FALSE,
                                    attackType |-> None])
    /\ UNCHANGED <<ledger, contract, useLocalIpfs, pending>>

\* result.txId || 'stub-tx-' + Date.now()
StubTxId == TxId("stub-tx-", "now")

\* variant: a failed ledger transaction ends the request with 500 and no
\* local override
RevokeOrgRoute_LedgerFirst(orgId, reason) ==
    IF orgId = ""
    THEN /\ reply' = RouteReply("POST /simulate-attack/revoke-org", 400,
                                "orgId is required")
         /\ UNCHANGED <<ledger, attackState, revokedOrgs, contract, useLocalIpfs, pending>>
    ELSE \E target \in ConnectTargets(contract), tx \in WriteTxCtx :
            LET res == IF target = "fabric"
                       THEN revokeOrg(ledger, tx, orgId, reason, ToString(tx.time))
                       ELSE TxThrow(ledger, "peer unavailable")
                failed == target # "stub" /\ ~res.ok
            IN  /\ ledger' = res.state
                /\ contract' = AfterConnect(contract, target)
                /\ attackState' = IF failed THEN attackState
                                  ELSE MapSet(attackState, orgId,
                                              AttackEntry(orgId, "revoked"))
                /\ revokedOrgs' = IF failed THEN revokedOrgs
                                  ELSE revokedOrgs \cup {orgId}
                /\ reply' = IF failed
                            THEN RouteReply("POST /simulate-attack/revoke-org", 500,
                                            "Revoke organization failed")
                            ELSE RouteReply("POST /simulate-attack/revoke-org", 200,
                                            [orgId |-> orgId,
                                             chaincodeResult |-> "revoked-on-ledger",
                                             txId |-> StubTxId,
                                             revokedAt |-> tx.time])
                /\ UNCHANGED <<useLocalIpfs, pending>>

\* POST /simulate-attack/revoke-org
RevokeOrgRoute(orgId, reason) ==
    IF orgId = ""
    THEN /\ reply' = RouteReply("POST /simulate-attack/revoke-org", 400,
                                "orgId is required")
         /\ UNCHANGED <<ledger, attackState, revokedOrgs, contract, useLocalIpfs, pending>>
    ELSE \E target \in ConnectTargets(contract), tx \in WriteTxCtx :
            LET res == IF target = "fabric"
                       THEN revokeOrg(ledger, tx, orgId, reason, ToString(tx.time))
                       ELSE TxThrow(ledger, "peer unavailable")
                chaincodeResult ==
                    IF target = "stub" THEN "stub-success"
                    ELSE IF res.ok THEN "revoked-on-ledger" ELSE "local-fallback"
            IN  /\ ledger' = res.state
                /\ contract' = AfterConnect(contract, target)
                /\ attackState' = MapSet(attackState, orgId, AttackEntry(orgId, "revoked"))
                /\ revokedOrgs' = revokedOrgs \cup {orgId}
                /\ reply' = RouteReply("POST /simulate-attack/revoke-org", 200,
                                       [orgId |-> orgId,
                                        chaincodeResult |-> chaincodeResult,
                                        txId |-> IF chaincodeResult = "revoked-on-ledger"
                                                 THEN res.event.txId
                                                 ELSE StubTxId,
                                        revokedAt |-> tx.time])
                /\ UNCHANGED <<useLocalIpfs, pending>>

\* variant: a failed ledger transaction ends the request with 500 and the
\* override is left in place
ReinstateOrgRoute_LedgerFirst(orgId) ==
    IF orgId = ""
    THEN /\ reply' = RouteReply("POST /simulate-attack/reinstate-org", 400,
                                "orgId is required")
         /\ UNCHANGED <<ledger, attackState, revokedOrgs, contract, useLocalIpfs, pending>>
    ELSE \E target \in ConnectTargets(contract), tx \in WriteTxCtx :
            LET res == IF target = "fabric" THEN reinstateOrg(ledger, tx, orgId)
                       ELSE TxThrow(ledger, "peer unavailable")
            IN  /\ ledger' = res.state
                /\ contract' = AfterConnect(contract, target)
                /\ attackState' = IF res.ok THEN MapDelete(attackState, orgId)
                                  ELSE attackState
                /\ revokedOrgs' = IF res.ok THEN revokedOrgs \ {orgId}
                                  ELSE revokedOrgs
                /\ reply' = IF res.ok
                            THEN RouteReply("POST /simulate-attack/reinstate-org", 200,
                                            [orgId |-> orgId, reinstatedAt |-> tx.time])
                            ELSE RouteReply("POST /simulate-attack/reinstate-org", 500,
                                            "Reinstate organization failed")
                /\ UNCHANGED <<useLocalIpfs, pending>>

\* POST /simulate-attack/reinstate-org
ReinstateOrgRoute(orgId) ==
    IF orgId = ""
    THEN /\ reply' = RouteReply("POST /simulate-attack/reinstate-org", 400,
                                "orgId is required")
         /\ UNCHANGED <<ledger, attackState, revokedOrgs, contract, useLocalIpfs, pending>>
    ELSE \E target \in ConnectTargets(contract), tx \in WriteTxCtx :
            LET res == IF target = "fabric" THEN reinstateOrg(ledger, tx, orgId)
                       ELSE TxThrow(ledger, "peer unavailable")
            IN  /\ ledger' = res.state
                /\ contract' = AfterConnect(contract, target)
                /\ attackState' = MapDelete(attackState, orgId)
                /\ revokedOrgs' = revokedOrgs \ {orgId}
                /\ reply' = RouteReply("POST /simulate-attack/reinstate-org", 200,
                                       [orgId |-> orgId, reinstatedAt |-> tx.time])
                /\ UNCHANGED <<useLocalIpfs, pending>>

\* GET /simulate-attack
GetAttacks ==
    /\ reply' = RouteReply("GET /simulate-attack", 200,
                           [attacks |-> {[id |-> k,
                                          orgId |-> attackState[k].orgId,
                                          active |-> attackState[k].active,
                                          attackType |-> attackState[k].attackType]
                                         : k \in DOMAIN attackState},
                            revokedOrgs |-> revokedOrgs])
    /\ UNCHANGED <<ledger, attackState, revokedOrgs, contract, useLocalIpfs, pending>>

\* variant: only the attack-state map is cleared
ClearAttacks_KeepRevoked ==
    /\ attackState' = EmptyState
    /\ UNCHANGED revokedOrgs
    /\ reply' = RouteReply("DELETE /simulate-attack", 200,
                           [clearedCount |-> Cardinality(DOMAIN attackState)])
    /\ UNCHANGED <<ledger, contract, useLocalIpfs, pending>>

\* DELETE /simulate-attack
ClearAttacks ==
    /\ attackState' = EmptyState
    /\ revokedOrgs' = {}
    /\ reply' = RouteReply("DELETE /simulate-attack", 200,
                           [clearedCount |-> Cardinality(DOMAIN attackState)])
    /\ UNCHANGED <<ledger, contract, useLocalIpfs, pending>>

(***************************************************************************)
(* External stores seen by resource.js: IPFS gateways, Vault, pyUmbral.    *)
(* What they answer is outside the program: every answer is an input.      *)
(***************************************************************************)
W3S_GATEWAY == "https://w3s.link"
IPFS_GATEWAY == "http://127.0.0.1:8080"

BadSha == "sha-bad"
OwnerKeyBytes == "key-owner"
WrongKeyBytes == "key-wrong"

\* encrypted blobs a gateway may hand back: the stored envelope (small or
\* above the 1 MB streaming threshold once decrypted) or altered bytes
Blobs == { [content |-> "stored", big |-> FALSE],
           [content |-> "stored", big |-> TRUE],
           [content |-> "altered", big |-> FALSE] }

NoBlob == [content |-> None, big |-> FALSE]
GatewayAnswers == {NoBlob} \cup Blobs
\* the answer of the preferred gateway and of the other one
IpfsExt == [primary : GatewayAnswers, fallback : GatewayAnswers]

\* the gateway answers of a request whose fetch did not fail are not kept
NoGatewayLog == [primary |-> [content |-> "unlogged", big |-> FALSE],
                 fallback |-> [content |-> "unlogged", big |-> FALSE]]

\* encrypt.sha256Hex of the fetched bytes
sha256Hex(blob) == IF blob.content = "stored" THEN GoodSha ELSE BadSha

\* nothing decrypted, nothing sent
NoPlaintext == [data |-> None, big |-> FALSE]

\* encrypt.unpackEncrypted + encrypt.decrypt: AES-GCM authenticates only
\* under the key the envelope was sealed with
decrypt(blob, aesKey) ==
    IF aesKey.bytes = OwnerKeyBytes /\ blob.content = "stored"
    THEN [ok |-> TRUE, plaintext |-> [data |-> "phi", big |-> blob.big]]
    ELSE [ok |-> FALSE, plaintext |-> NoPlaintext]

\* fetchFromIPFS(cid, false)
fetchFromIPFS(localIpfs, cid, ext) ==
    LET gateway == IF localIpfs THEN IPFS_GATEWAY ELSE W3S_GATEWAY
    IN  IF ext.primary # NoBlob
        THEN [ok |-> TRUE, data |-> ext.primary]
        ELSE IF ~localIpfs /\ gateway # IPFS_GATEWAY /\ ext.fallback # NoBlob
        THEN [ok |-> TRUE, data |-> ext.fallback]
        ELSE [ok |-> FALSE, data |-> NoBlob]

VaultAnswers == {"throws", "empty", "data"}

\* getResourceKey(resourceId): secret/data/owner/keys/<resourceId>
getResourceKey(resourceId, vaultAnswer) ==
    IF vaultAnswer = "data"
    THEN [ok |-> TRUE, keyData |-> [aesKey |-> OwnerKeyBytes]]
    ELSE [ok |-> FALSE, keyData |-> [aesKey |-> None]]

\* answers of Vault (rekey record, shared-key record) and of pyUmbral
KeyExt == [rekey : VaultAnswers, shared : VaultAnswers,
           reencrypt : BOOLEAN, plaintext : {"fail", OwnerKeyBytes, WrongKeyBytes}]

Key(source, bytes) == [source |-> source, bytes |-> bytes]
KeyFailed == [ok |-> FALSE, key |-> Key(None, None)]

\* getDecryptableKey(resourceId, callerOrgId, ownerOrgId, encryptedKeyData)
getDecryptableKey(resourceId, callerOrgId, ownerOrgId, encryptedKeyData, ext) ==
    IF callerOrgId = ownerOrgId
    THEN [ok |-> TRUE, key |-> Key("owner-direct", encryptedKeyData.aesKey)]
    ELSE IF ext.rekey = "throws" /\ ext.shared = "data"
    THEN [ok |-> TRUE, key |-> Key("shared", OwnerKeyBytes)]
    ELSE IF ext.rekey = "throws" /\ ext.shared = "throws"
    THEN KeyFailed  \* No rekey or shared key found
    ELSE IF ext.rekey # "data"
    THEN KeyFailed  \* No rekey found
    ELSE IF ~ext.reencrypt \/ ext.plaintext = "fail"
    THEN KeyFailed  \* pyUmbral round trip failed
    ELSE [ok |-> TRUE, key |-> Key("pre", ext.plaintext)]

(***************************************************************************)
(* resource.js: GET /resource/:id                                          *)
(***************************************************************************)
StageOrder == <<"AccessCheck", "MetadataFetch", "BlobFetch", "IntegrityCheck",
                "KeyMaterialFetch", "KeyResolution", "Decrypt", "Respond">>

\* request context carried through the handler
NewRequest(resourceId, callerOrgId, streamMode, now) ==
    [resourceId |-> resourceId, callerOrgId |-> callerOrgId,
     streamMode |-> streamMode, now |-> now, contract |-> contract,
     stages |-> <<>>, accessVia |-> None, access |-> None, sha256 |-> None, fetched |-> None,
     keyResolution |-> None, keySource |-> None, gateways |-> NoGatewayLog,
     metadata |-> None]

Ran(c, stage, ok) ==
    [c EXCEPT !.stages = Append(@, [stage |-> stage, ok |-> ok])]

\* the handler ends: one response, the ledger as the audit step left it
Finish(c, status, error, reason, body, L, audit) ==
    /\ reply' = [fn |-> "GET /resource/:id", resourceId |-> c.resourceId,
                 callerOrgId |-> c.callerOrgId, status |-> status,
                 error |-> error, reason |-> reason, body |-> body,
                 stages |-> c.stages, accessVia |-> c.accessVia,
                 access |-> c.access, sha256 |-> c.sha256,
                 fetched |-> c.fetched, keyResolution |-> c.keyResolution,
                 keySource |-> c.keySource, gateways |-> c.gateways,
                 metadata |-> c.metadata, audit |-> audit]
    /\ ledger' = L
    /\ contract' = c.contract
    /\ UNCHANGED <<attackState, revokedOrgs, useLocalIpfs, pending>>

\* what became of the logAccess submission: accepted by the stub contract,
\* committed, rejected by the chaincode, or lost with the peer
AuditOutcome(target, res) ==
    IF target = "stub" THEN "stub"
    ELSE IF res.ok THEN "logged"
    ELSE IF target = "fabric" THEN "rejected"
    ELSE "failed"

\* variant: the submission is awaited inside the try block, so its failure
\* reaches the outer catch
AuditLog_Awaited(c, plaintext) ==
    \E target \in ConnectTargets(c.contract), txId \in TxIds :
        LET c1 == [c EXCEPT !.contract = AfterConnect(c.contract, target)]
            res == IF target = "fabric"
                   THEN logAccess(ledger, [time |-> c.now, txId |-> txId],
                                  c.resourceId, c.callerOrgId, "retrieve",
                                  ToString(MaxTime))
                   ELSE TxThrow(ledger, "peer unavailable")
        IN  IF target = "stub" \/ res.ok
            THEN Finish(c1, 200, None, None, plaintext, res.state,
                        AuditOutcome(target, res))
            ELSE Finish(c1, 500, "Resource retrieval failed", None, NoPlaintext,
                        res.state, AuditOutcome(target, res))

\* fire-and-forget submitTransaction('logAccess', ...) after res.send
AuditLog(c, plaintext) ==
    \E target \in ConnectTargets(c.contract), txId \in TxIds :
        LET c1 == [c EXCEPT !.contract = AfterConnect(c.contract, target)]
            res == IF target = "fabric"
                   THEN logAccess(ledger, [time |-> c.now, txId |-> txId],
                                  c.resourceId, c.callerOrgId, "retrieve",
                                  ToString(MaxTime))
                   ELSE TxThrow(ledger, "peer unavailable")
        IN  Finish(c1, 200, None, None, plaintext, res.state,
                   AuditOutcome(target, res))

\* Step 7: headers, then stream (large payload in stream mode) or send
Respond(c, plaintext) ==
    LET c1 == Ran(c, "Respond", TRUE)
    IN  IF c.streamMode /\ plaintext.big
        THEN Finish(c1, 200, None, None, plaintext, ledger, None)
        ELSE AuditLog(c1, plaintext)

\* Step 6: unpack and decrypt
Decrypt(c, blob, aesKey) ==
    LET res == decrypt(blob, aesKey)
        c1 == [c EXCEPT !.keySource = aesKey.source]
    IN  IF res.ok
        THEN Respond(Ran(c1, "Decrypt", TRUE), res.plaintext)
        ELSE Finish(Ran(c1, "Decrypt", FALSE), 500, "Decryption failed",
                    None, NoPlaintext, ledger, None)

\* variant: the raw-key fallback is taken whoever the caller is
KeyResolution_FallbackForAll(c, blob, ownerOrgId, keyData) ==
    \E res \in { getDecryptableKey(c.resourceId, c.callerOrgId, ownerOrgId,
                                   keyData, ext) : ext \in KeyExt } :
        IF res.ok
        THEN Decrypt(Ran([c EXCEPT !.keyResolution = "resolved"],
                         "KeyResolution", TRUE), blob, res.key)
        ELSE Decrypt(Ran([c EXCEPT !.keyResolution = "failed"],
                         "KeyResolution", TRUE), blob,
                     Key("owner-raw-fallback", keyData.aesKey))

\* Step 5: obtain the decryptable key; raw-key fallback for the owner
KeyResolution(c, blob, ownerOrgId, keyData) ==
    \E res \in { getDecryptableKey(c.resourceId, c.callerOrgId, ownerOrgId,
                                   keyData, ext) : ext \in KeyExt } :
        IF res.ok
        THEN Decrypt(Ran([c EXCEPT !.keyResolution = "resolved"],
                         "KeyResolution", TRUE), blob, res.key)
        ELSE IF c.access.isOwner = TRUE
        THEN Decrypt(Ran([c EXCEPT !.keyResolution = "failed"],
                         "KeyResolution", TRUE), blob,
                     Key("owner-raw-fallback", keyData.aesKey))
        ELSE Finish(Ran([c EXCEPT !.keyResolution = "failed"],
                        "KeyResolution", FALSE), 403,
                    "Decryption key unavailable", None, NoPlaintext, ledger, None)

\* Step 4: the owner's key record from Vault
KeyMaterialFetch(c, blob, ownerOrgId) ==
    \E res \in { getResourceKey(c.resourceId, a) : a \in VaultAnswers } :
        IF res.ok
        THEN KeyResolution(Ran(c, "KeyMaterialFetch", TRUE), blob, ownerOrgId,
                           res.keyData)
        ELSE Finish(Ran(c, "KeyMaterialFetch", FALSE), 503,
                    "Key service unavailable", None, NoPlaintext, ledger, None)

\* variant: a mismatch is logged and the handler carries on
IntegrityCheck_WarnOnly(c, blob, meta) ==
    LET computedHash == sha256Hex(blob)
        c1 == [c EXCEPT !.sha256 = meta.sha256, !.fetched = computedHash]
    IN  KeyMaterialFetch(Ran(c1, "IntegrityCheck", computedHash = meta.sha256),
                         blob, meta.ownerOrgId)

\* SHA-256 of the fetched bytes against the ledger's sha256
IntegrityCheck(c, blob, meta) ==
    LET computedHash == sha256Hex(blob)
        c1 == [c EXCEPT !.sha256 = meta.sha256, !.fetched = computedHash]
    IN  IF computedHash # meta.sha256
        THEN Finish(Ran(c1, "IntegrityCheck", FALSE), 500,
                    "Integrity verification failed", None, NoPlaintext, ledger, None)
        ELSE KeyMaterialFetch(Ran(c1, "IntegrityCheck", TRUE), blob, meta.ownerOrgId)

\* the fetch and, when it failed, what the two gateways had answered
FetchOutcome(localIpfs, cid, ext) ==
    LET res == fetchFromIPFS(localIpfs, cid, ext)
    IN  [res |-> res, gateways |-> IF res.ok THEN NoGatewayLog ELSE ext]

\* variant: a failed fetch is swallowed and an empty buffer handed on
BlobFetch_SwallowFailure(c, meta) ==
    \E f \in { FetchOutcome(useLocalIpfs, meta.cid, ext) : ext \in IpfsExt } :
        IF f.res.ok
        THEN IntegrityCheck(Ran(c, "BlobFetch", TRUE), f.res.data, meta)
        ELSE KeyMaterialFetch(Ran([c EXCEPT !.gateways = f.gateways],
                                  "BlobFetch", FALSE),
                              f.res.data, meta.ownerOrgId)

\* Step 3: the encrypted blob
BlobFetch(c, meta) ==
    \E f \in { FetchOutcome(useLocalIpfs, meta.cid, ext) : ext \in IpfsExt } :
        IF f.res.ok
        THEN IntegrityCheck(Ran(c, "BlobFetch", TRUE), f.res.data, meta)
        ELSE Finish(Ran([c EXCEPT !.gateways = f.gateways], "BlobFetch", FALSE),
                    503, "Storage service unavailable", None, NoPlaintext,
                    ledger, None)

\* what queryResource came back with
QueryOutcome(res) ==
    IF res.ok THEN IF res.ret.cid = "" THEN "malformed" ELSE "found"
    ELSE IF MessageIncludesDoesNotExist(res.error) THEN "missing"
    ELSE "unavailable"

\* Step 2: queryResource; a throw lands in the outer catch
MetadataFetch(c) ==
    \E target \in ConnectTargets(c.contract) : \E testConfig \in StubConfigs(target) :
        LET res == EvaluateQueryResource(ledger, target, testConfig, c.resourceId)
            c1 == [c EXCEPT !.contract = AfterConnect(c.contract, target),
                            !.metadata = QueryOutcome(res)]
        IN  IF ~res.ok
            THEN Finish(Ran(c1, "MetadataFetch", FALSE), 500,
                        "Resource retrieval failed", None, NoPlaintext, ledger, None)
            ELSE IF res.ret.cid = ""
            THEN Finish(Ran(c1, "MetadataFetch", FALSE), 404,
                        "Resource metadata not found", None, NoPlaintext, ledger, None)
            ELSE BlobFetch(Ran(c1, "MetadataFetch", TRUE), res.ret)

\* Step 1: checkAccess; 'does not exist' is 404, any other throw the outer catch
AccessCheck(c) ==
    \E target \in ConnectTargets(c.contract) : \E testConfig \in StubConfigs(target) :
        LET c1 == [c EXCEPT !.contract = AfterConnect(c.contract, target)]
            res == EvaluateCheckAccess(ledger, target, testConfig, c.now,
                                       c.resourceId, c.callerOrgId)
            c2 == [c1 EXCEPT !.accessVia = target,
                             !.access = IF res.ok THEN res.ret ELSE None]
        IN  IF ~res.ok /\ MessageIncludesDoesNotExist(res.error)
            THEN Finish(Ran(c2, "AccessCheck", FALSE), 404, "Resource not found",
                        None, NoPlaintext, ledger, None)
            ELSE IF ~res.ok
            THEN Finish(Ran(c2, "AccessCheck", FALSE), 500,
                        "Resource retrieval failed", None, NoPlaintext, ledger, None)
            ELSE IF ~res.ret.hasAccess
            THEN Finish(Ran(c2, "AccessCheck", FALSE), 403, "Access denied",
                        IF res.ret.reason # None THEN res.ret.reason
                        ELSE "No permission to access this resource",
                        NoPlaintext, ledger, None)
            ELSE MetadataFetch(Ran(c2, "AccessCheck", TRUE))

\* router.get('/:id')
GetResource(resourceId, callerOrgId, streamMode, now) ==
    /\ AuditCount(ledger) < MaxAudit
    /\ LET c == NewRequest(resourceId, callerOrgId, streamMode, now)
       IN  IF callerOrgId = ""
           THEN Finish(c, 400, "Missing x-org-id header", None, NoPlaintext, ledger, None)
           ELSE AccessCheck(c)

\* variant: the probe of an allowed caller also writes an audit entry
GetResourceMeta_Logged(resourceId, callerOrgId, now) ==
    LET a == EvaluateCheckAccess(ledger, "fabric", NoTestConfig, now,
                                 resourceId, callerOrgId)
        m == EvaluateQueryResource(ledger, "fabric", NoTestConfig, resourceId)
    IN  /\ callerOrgId # ""
        /\ a.ok
        /\ a.ret.hasAccess
        /\ m.ok
        /\ reply' = [fn |-> "GET /resource/:id/meta", resourceId |-> resourceId,
                     callerOrgId |-> callerOrgId, status |-> 200,
                     error |-> None, accessVia |-> "fabric",
                     access |-> a.ret, meta |-> m.ret,
                     calls |-> <<"checkAccess", "queryResource">>,
                     checked |-> TRUE, failure |-> None]
        /\ ledger' = logAccess(ledger, [time |-> now, txId |-> Tx1], resourceId,
                               callerOrgId, "meta", ToString(MaxTime)).state
        /\ contract' = "fabric"
        /\ UNCHANGED <<attackState, revokedOrgs, useLocalIpfs, pending>>

\* why a ledger call of the probe threw
ProbeFailure(err) ==
    IF MessageIncludesDoesNotExist(err) THEN "missing" ELSE "unavailable"

\* router.get('/:id/meta'); the reply keeps the evaluateTransaction calls made,
\* whether checkAccess returned, and why a call threw
GetResourceMeta(resourceId, callerOrgId, now) ==
    IF callerOrgId = ""
    THEN /\ reply' = [fn |-> "GET /resource/:id/meta", resourceId |-> resourceId,
                      callerOrgId |-> callerOrgId, status |-> 400,
                      error |-> "Missing x-org-id header", accessVia |-> None,
                      access |-> None, meta |-> None, calls |-> <<>>,
                      checked |-> FALSE, failure |-> None]
         /\ UNCHANGED <<ledger, backendVars>>
    ELSE \E t1 \in ConnectTargets(contract) : \E testConfig \in StubConfigs(t1) :
            LET a == EvaluateCheckAccess(ledger, t1, testConfig, now,
                                         resourceId, callerOrgId)
                cached1 == AfterConnect(contract, t1)
                Answer(status, error, access, meta, cached, calls, failure) ==
                    /\ reply' = [fn |-> "GET /resource/:id/meta",
                                 resourceId |-> resourceId,
                                 callerOrgId |-> callerOrgId, status |-> status,
                                 error |-> error, accessVia |-> t1,
                                 access |-> access, meta |-> meta,
                                 calls |-> calls, checked |-> a.ok,
                                 failure |-> failure]
                    /\ contract' = cached
                    /\ UNCHANGED <<ledger, attackState, revokedOrgs, useLocalIpfs, pending>>
            IN  IF ~a.ok /\ MessageIncludesDoesNotExist(a.error)
                THEN Answer(404, "Resource not found", None, None, cached1,
                            <<"checkAccess">>, ProbeFailure(a.error))
                ELSE IF ~a.ok
                THEN Answer(500, "Failed to retrieve metadata", None, None, cached1,
                            <<"checkAccess">>, ProbeFailure(a.error))
                ELSE IF ~a.ret.hasAccess
                THEN Answer(403, "Access denied", a.ret, None, cached1,
                            <<"checkAccess">>, None)
                ELSE \E t2 \in ConnectTargets(cached1) : \E testConfig2 \in StubConfigs(t2) :
                        LET m == EvaluateQueryResource(ledger, t2, testConfig2, resourceId)
                            cached2 == AfterConnect(cached1, t2)
                        IN  IF ~m.ok /\ MessageIncludesDoesNotExist(m.error)
                            THEN Answer(404, "Resource not found", a.ret, None, cached2,
                                        <<"checkAccess", "queryResource">>,
                                        ProbeFailure(m.error))
                            ELSE IF ~m.ok
                            THEN Answer(500, "Failed to retrieve metadata", a.ret,
                                        None, cached2,
                                        <<"checkAccess", "queryResource">>,
                                        ProbeFailure(m.error))
                            ELSE Answer(200, None, a.ret, m.ret, cached2,
                                        <<"checkAccess", "queryResource">>, None)

(***************************************************************************)
(* The backend in front of a seeded ledger                                 *)
(***************************************************************************)
SeedTx == [time |-> 0, txId |-> Tx1]

\* setup-test-data: two organizations and one resource owned by the hospital
SeedBase ==
    LET l1 == registerOrg(EmptyState, SeedTx, "hosp", "{}").state
        l2 == registerOrg(l1, SeedTx, "lab", "{}").state
    IN  uploadMeta(l2, SeedTx, "r1", "hosp", GoodCid, GoodSha, "Patient").state

\* the same with a read grant for the lab that runs out at time 0
SeedGranted == grantAccess(SeedBase, SeedTx, "r1", "lab", "0", "read").state

SeededLedgers == {SeedGranted}

RetrieveCallers == {"hosp", "lab", "org1", ""}
RetrieveAttackTypes == {"revoked", "exotic"}

InitRetrieve ==
    /\ ledger \in SeededLedgers
    /\ attackState = EmptyState
    /\ revokedOrgs = {}
    /\ contract = "null"
    /\ useLocalIpfs \in BOOLEAN
    /\ pending = {}
    /\ reply = NoReply

DoGetResource ==
    \E resourceId \in QueryResourceIds, callerOrgId \in RetrieveCallers,
       streamMode \in BOOLEAN, now \in Times :
        GetResource(resourceId, callerOrgId, streamMode, now)

DoGetResourceMeta ==
    \E resourceId \in QueryResourceIds, callerOrgId \in RetrieveCallers,
       now \in Times :
        GetResourceMeta(resourceId, callerOrgId, now)

DoToggleAttack ==
    \E orgId \in OrgIds, active \in BOOLEAN, attackType \in RetrieveAttackTypes :
        ToggleAttack(orgId, active, attackType)

NextRetrieve ==
    \/ DoGetResource
    \/ DoGetResourceMeta
    \/ DoToggleAttack
    \/ ClearAttacks

SpecRetrieve == InitRetrieve /\ [][NextRetrieve]_vars

(***************************************************************************)
(* The audit trail: logAccess in several transactions on a seeded ledger   *)
(***************************************************************************)
AuditActors == {"hosp", "lab", "org1"}
AuditActions == {"retrieve", "DENIED"}

AuditKeys(L) == {k \in DOMAIN L : k[1] = AUDIT_PREFIX}

InitAudit ==
    /\ ledger \in {SeedBase, SeedGranted}
    /\ attackState = EmptyState
    /\ revokedOrgs = {}
    /\ contract = "fabric"
    /\ useLocalIpfs = FALSE
    /\ pending = {}
    /\ reply = NoReply

\* every transaction has an id of its own; the timestamp argument counts
\* seconds, so two calls within one second carry the same one
LogAccessTx ==
    /\ AuditCount(ledger) < MaxAuditLog
    /\ \E txId \in AuditTxIds, resourceId \in QueryResourceIds,
          actorOrgId \in AuditActors, action \in AuditActions :
          /\ \A k \in AuditKeys(ledger) : ledger[k].txId # txId
          /\ Invoke("logAccess",
                    logAccess(ledger, [time |-> 0, txId |-> txId], resourceId,
                              actorOrgId, action, ToString(MaxTime)))

NextAudit ==
    \/ LogAccessTx
    \/ RevokeAccess

SpecAudit == InitAudit /\ [][NextAudit]_vars

(***************************************************************************)
(* The attack-simulation routes on their own                               *)
(***************************************************************************)
AttackOrgIds == {"hosp", "lab", ""}
AttackTypeArgs == {"revoked", "compromised", "exotic"}

InitAttack ==
    /\ ledger = SeedBase
    /\ attackState = EmptyState
    /\ revokedOrgs = {}
    /\ contract = "null"
    /\ useLocalIpfs = FALSE
    /\ pending = {}
    /\ reply = NoReply

DoToggle ==
    \E orgId \in AttackOrgIds, active \in BOOLEAN, attackType \in AttackTypeArgs :
        ToggleAttack(orgId, active, attackType)

DoRevokeOrgRoute ==
    \E orgId \in RevocableOrgIds \cup {""}, reason \in RevokeReasons :
        RevokeOrgRoute(orgId, reason)

DoReinstateOrgRoute ==
    \E orgId \in RevocableOrgIds \cup {""} : ReinstateOrgRoute(orgId)

NextAttack ==
    \/ DoToggle
    \/ DoRevokeOrgRoute
    \/ DoReinstateOrgRoute
    \/ ClearAttacks
    \/ GetAttacks

SpecAttack == InitAttack /\ [][NextAttack]_vars

(***************************************************************************)
(* The attack-simulation routes under concurrent requests.  Node runs each *)
(* handler to its next await without interruption: the toggle, clear and   *)
(* list handlers have no await; revoke-org and reinstate-org suspend once, *)
(* on fabricClient.submitTransaction, and write the override afterwards.   *)
(***************************************************************************)
MaxInFlight == 2

Submitted(fn, orgId) ==
    [fn |-> fn, orgId |-> orgId, pos |-> "submitted",
     chaincodeResult |-> None, txId |-> StubTxId]

\* revoke-org up to the await
BeginRevokeOrg ==
    \E orgId \in RevocableOrgIds :
        /\ Cardinality(pending) < MaxInFlight
        /\ pending' = pending \cup {Submitted("revoke-org", orgId)}
        /\ UNCHANGED <<ledger, attackState, revokedOrgs, contract, useLocalIpfs, reply>>

\* reinstate-org up to the await
BeginReinstateOrg ==
    \E orgId \in RevocableOrgIds :
        /\ Cardinality(pending) < MaxInFlight
        /\ pending' = pending \cup {Submitted("reinstate-org", orgId)}
        /\ UNCHANGED <<ledger, attackState, revokedOrgs, contract, useLocalIpfs, reply>>

\* the ledger call of a suspended request commits, fails, or is served by
\* the stub; its promise settles
LedgerSettles ==
    \E r \in pending, target \in ConnectTargets(contract), tx \in WriteTxCtx,
       reason \in RevokeReasons :
        LET res == IF target # "fabric" THEN TxThrow(ledger, "peer unavailable")
                   ELSE IF r.fn = "revoke-org"
                   THEN revokeOrg(ledger, tx, r.orgId, reason, ToString(tx.time))
                   ELSE reinstateOrg(ledger, tx, r.orgId)
            chaincodeResult ==
                IF target = "stub" THEN "stub-success"
                ELSE IF res.ok THEN "revoked-on-ledger" ELSE "local-fallback"
        IN  /\ r.pos = "submitted"
            /\ ledger' = res.state
            /\ contract' = AfterConnect(contract, target)
            /\ pending' = (pending \ {r}) \cup
                          {[r EXCEPT !.pos = "settled",
                                     !.chaincodeResult = chaincodeResult,
                                     !.txId = IF chaincodeResult = "revoked-on-ledger"
                                              THEN res.event.txId ELSE StubTxId]}
            /\ UNCHANGED <<attackState, revokedOrgs, useLocalIpfs, reply>>

\* variant: the continuation adds the org to the revoked-set only
CompleteRevokeOrg_SetOnly ==
    \E r \in pending, tx \in WriteTxCtx :
        /\ r.fn = "revoke-org" /\ r.pos = "settled"
        /\ revokedOrgs' = revokedOrgs \cup {r.orgId}
        /\ reply' = RouteReply("POST /simulate-attack/revoke-org", 200,
                               [orgId |-> r.orgId,
                                chaincodeResult |-> r.chaincodeResult,
                                txId |-> r.txId, revokedAt |-> tx.time])
        /\ pending' = pending \ {r}
        /\ UNCHANGED <<ledger, attackState, contract, useLocalIpfs>>

\* revoke-org after the await
CompleteRevokeOrg ==
    \E r \in pending, tx \in WriteTxCtx :
        /\ r.fn = "revoke-org" /\ r.pos = "settled"
        /\ attackState' = MapSet(attackState, r.orgId, AttackEntry(r.orgId, "revoked"))
        /\ revokedOrgs' = revokedOrgs \cup {r.orgId}
        /\ reply' = RouteReply("POST /simulate-attack/revoke-org", 200,
                               [orgId |-> r.orgId,
                                chaincodeResult |-> r.chaincodeResult,
                                txId |-> r.txId, revokedAt |-> tx.time])
        /\ pending' = pending \ {r}
        /\ UNCHANGED <<ledger, contract, useLocalIpfs>>

\* variant: the continuation deletes the map entry and keeps the revoked-set
CompleteReinstateOrg_KeepSet ==
    \E r \in pending, tx \in WriteTxCtx :
        /\ r.fn = "reinstate-org" /\ r.pos = "settled"
        /\ attackState' = MapDelete(attackState, r.orgId)
        /\ reply' = RouteReply("POST /simulate-attack/reinstate-org", 200,
                               [orgId |-> r.orgId, reinstatedAt |-> tx.time])
        /\ pending' = pending \ {r}
        /\ UNCHANGED <<ledger, revokedOrgs, contract, useLocalIpfs>>

\* reinstate-org after the await
CompleteReinstateOrg ==
    \E r \in pending, tx \in WriteTxCtx :
        /\ r.fn = "reinstate-org" /\ r.pos = "settled"
        /\ attackState' = MapDelete(attackState, r.orgId)
        /\ revokedOrgs' = revokedOrgs \ {r.orgId}
        /\ reply' = RouteReply("POST /simulate-attack/reinstate-org", 200,
                               [orgId |-> r.orgId, reinstatedAt |-> tx.time])
        /\ pending' = pending \ {r}
        /\ UNCHANGED <<ledger, contract, useLocalIpfs>>

RaceOrgIds == {"hosp", "lab"}
RaceAttackTypes == {"revoked", "compromised"}

RaceToggle ==
    \E orgId \in RaceOrgIds, active \in BOOLEAN, attackType \in RaceAttackTypes :
        ToggleAttack(orgId, active, attackType)

InitRace ==
    /\ ledger = SeedBase
    /\ attackState = EmptyState
    /\ revokedOrgs = {}
    /\ contract = "null"
    /\ useLocalIpfs = FALSE
    /\ pending = {}
    /\ reply = NoReply

NextRace ==
    \/ RaceToggle
    \/ BeginRevokeOrg
    \/ BeginReinstateOrg
    \/ LedgerSettles
    \/ CompleteRevokeOrg
    \/ CompleteReinstateOrg
    \/ ClearAttacks
    \/ GetAttacks

SpecRace == InitRace /\ [][NextRace]_vars

(***************************************************************************)
(* share.js: POST /share/grant and POST /share/revoke                      *)
(***************************************************************************)
\* a parameter the caller did not pass: falsy, as the empty string is
Undefined == ""

ShareReply(fn, status, body, request, via) ==
    [fn |-> fn, status |-> status, body |-> body, request |-> request, via |-> via]

\* POST /share/grant
ShareGrant(callerOrgId, resourceId, orgId) ==
    LET request == [callerOrgId |-> callerOrgId, resourceId |-> resourceId,
                    orgId |-> orgId]
        fn == "POST /share/grant"
    IN  IF callerOrgId = ""
        THEN /\ reply' = ShareReply(fn, 400, "Missing x-org-id header", request, None)
             /\ UNCHANGED <<ledger, backendVars>>
        ELSE IF resourceId = ""
        THEN /\ reply' = ShareReply(fn, 400, "Missing resourceId", request, None)
             /\ UNCHANGED <<ledger, backendVars>>
        ELSE IF orgId = ""
        THEN /\ reply' = ShareReply(fn, 400, "Missing orgId", request, None)
             /\ UNCHANGED <<ledger, backendVars>>
        ELSE \E target \in ConnectTargets(contract), tx \in WriteTxCtx :
                LET normalizedOrgId == toLowerCase(orgId)
                    res == IF target = "fabric"
                           THEN grantAccess(ledger, tx, resourceId, normalizedOrgId,
                                            Undefined, Undefined)
                           ELSE TxThrow(ledger, "peer unavailable")
                IN  /\ ledger' = res.state
                    /\ contract' = AfterConnect(contract, target)
                    /\ reply' = IF target = "stub" \/ res.ok
                                THEN ShareReply(fn, 200,
                                                [resourceId |-> resourceId,
                                                 grantedTo |-> normalizedOrgId,
                                                 grantedBy |-> toLowerCase(callerOrgId)],
                                                request, target)
                                ELSE ShareReply(fn, 500, res.error, request, target)
                    /\ UNCHANGED <<attackState, revokedOrgs, useLocalIpfs, pending>>

\* POST /share/revoke
ShareRevoke(callerOrgId, resourceId, orgId) ==
    LET request == [callerOrgId |-> callerOrgId, resourceId |-> resourceId,
                    orgId |-> orgId]
        fn == "POST /share/revoke"
    IN  IF callerOrgId = ""
        THEN /\ reply' = ShareReply(fn, 400, "Missing x-org-id header", request, None)
             /\ UNCHANGED <<ledger, backendVars>>
        ELSE IF resourceId = "" \/ orgId = ""
        THEN /\ reply' = ShareReply(fn, 400, "Missing required fields", request, None)
             /\ UNCHANGED <<ledger, backendVars>>
        ELSE \E target \in ConnectTargets(contract), tx \in WriteTxCtx :
                LET normalizedOrgId == toLowerCase(orgId)
                    res == IF target = "fabric"
                           THEN revokeAccess(ledger, tx, resourceId, normalizedOrgId)
                           ELSE TxThrow(ledger, "peer unavailable")
                IN  /\ ledger' = res.state
                    /\ contract' = AfterConnect(contract, target)
                    /\ reply' = IF target = "stub" \/ res.ok
                                THEN ShareReply(fn, 200,
                                                [resourceId |-> resourceId,
                                                 revokedFrom |-> normalizedOrgId],
                                                request, target)
                                ELSE ShareReply(fn, 500, res.error, request, target)
                    /\ UNCHANGED <<attackState, revokedOrgs, useLocalIpfs, pending>>

ShareCallers == {"hosp", ""}
ShareResourceIds == {"r1", "r2", ""}
ShareOrgIds == {"lab", "LAB", "ghost", ""}

InitShare ==
    /\ ledger \in {SeedBase, SeedGranted}
    /\ attackState = EmptyState
    /\ revokedOrgs = {}
    /\ contract = "null"
    /\ useLocalIpfs = FALSE
    /\ pending = {}
    /\ reply = NoReply

DoShareGrant ==
    \E callerOrgId \in ShareCallers, resourceId \in ShareResourceIds,
       orgId \in ShareOrgIds :
        ShareGrant(callerOrgId, resourceId, orgId)

DoShareRevoke ==
    \E callerOrgId \in ShareCallers, resourceId \in ShareResourceIds,
       orgId \in ShareOrgIds :
        ShareRevoke(callerOrgId, resourceId, orgId)

NextShare ==
    \/ DoShareGrant
    \/ DoShareRevoke

SpecShare == InitShare /\ [][NextShare]_vars

(***************************************************************************)
(* crypto/encrypt.js: the packed envelope [iv | authTag | ciphertext].     *)
(* A Buffer is a sequence of bytes.                                        *)
(***************************************************************************)
IV_LENGTH == 12
AUTH_TAG_LENGTH == 16

MaxCipherLen == 2

\* Buffer.concat([iv, authTag, ciphertext])
packEncrypted(encryptedData) ==
    encryptedData.iv \o encryptedData.authTag \o encryptedData.ciphertext

\* buf.slice(start, end): zero-based, end exclusive, clamped to the buffer
slice(buf, start, end) ==
    LET e == IF end > Len(buf) THEN Len(buf) ELSE end
    IN  IF start >= e THEN <<>> ELSE SubSeq(buf, start + 1, e)

\* variant: an envelope of exactly 28 bytes is refused as well
unpackEncrypted_RejectsExact(packed) ==
    IF Len(packed) <= IV_LENGTH + AUTH_TAG_LENGTH
    THEN [ok |-> FALSE, error |-> "Packed data too short"]
    ELSE [ok |-> TRUE,
          iv |-> slice(packed, 0, IV_LENGTH),
          authTag |-> slice(packed, IV_LENGTH, IV_LENGTH + AUTH_TAG_LENGTH),
          ciphertext |-> slice(packed, IV_LENGTH + AUTH_TAG_LENGTH, Len(packed))]

unpackEncrypted(packed) ==
    IF Len(packed) < IV_LENGTH + AUTH_TAG_LENGTH
    THEN [ok |-> FALSE, error |-> "Packed data too short"]
    ELSE [ok |-> TRUE,
          iv |-> slice(packed, 0, IV_LENGTH),
          authTag |-> slice(packed, IV_LENGTH, IV_LENGTH + AUTH_TAG_LENGTH),
          ciphertext |-> slice(packed, IV_LENGTH + AUTH_TAG_LENGTH, Len(packed))]

Bytes == {0, 255}
Ivs == {[i \in 1..IV_LENGTH |-> b] : b \in Bytes} \cup {[i \in 1..IV_LENGTH |-> i]}
AuthTags ==
    {[i \in 1..AUTH_TAG_LENGTH |-> b] : b \in Bytes}
    \cup {[i \in 1..AUTH_TAG_LENGTH |-> 100 + i]}
Ciphertexts == UNION {[1..n -> Bytes] : n \in 0..MaxCipherLen}
Envelopes == [iv : Ivs, authTag : AuthTags, ciphertext : Ciphertexts]

\* unpackEncrypted(packEncrypted(encryptedData))
PackThenUnpack ==
    /\ \E encryptedData \in Envelopes :
          reply' = [fn |-> "packEncrypted", input |-> encryptedData,
                    packed |-> packEncrypted(encryptedData),
                    unpacked |-> unpackEncrypted(packEncrypted(encryptedData))]
    /\ UNCHANGED <<ledger, backendVars>>

\* unpackEncrypted on a buffer of any length, truncated envelopes included
UnpackAny ==
    /\ \E encryptedData \in Envelopes :
          \E n \in 0..Len(packEncrypted(encryptedData)) :
             LET packed == slice(packEncrypted(encryptedData), 0, n)
             IN  reply' = [fn |-> "unpackEncrypted", input |-> packed,
                           unpacked |-> unpackEncrypted(packed)]
    /\ UNCHANGED <<ledger, backendVars>>

InitPack ==
    /\ ledger = EmptyState
    /\ attackState = EmptyState
    /\ revokedOrgs = {}
    /\ contract = "null"
    /\ useLocalIpfs = FALSE
    /\ pending = {}
    /\ reply = NoReply

NextPack ==
    \/ PackThenUnpack
    \/ UnpackAny

SpecPack == InitPack /\ [][NextPack]_vars

(***************************************************************************)
(* Key resolution on its own: getDecryptableKey against every answer of    *)
(* the secret store and of the re-encryption service                       *)
(***************************************************************************)
InitKeys ==
    /\ ledger = SeedGranted
    /\ attackState = EmptyState
    /\ revokedOrgs = {}
    /\ contract = "null"
    /\ useLocalIpfs = FALSE
    /\ pending = {}
    /\ reply = NoReply

ResolveKey ==
    /\ \E callerOrgId \in RetrieveCallers \ {""}, ext \in KeyExt :
          LET meta == getState(ledger, createCompositeKey(RESOURCE_PREFIX, <<"r1">>))
              keyData == getResourceKey("r1", "data").keyData
          IN  reply' = [fn |-> "getDecryptableKey", resourceId |-> "r1",
                        callerOrgId |-> callerOrgId,
                        ownerOrgId |-> meta.ownerOrgId, ext |-> ext,
                        res |-> getDecryptableKey("r1", callerOrgId,
                                                  meta.ownerOrgId, keyData, ext)]
    /\ UNCHANGED <<ledger, backendVars>>

NextKeys == ResolveKey

SpecKeys == InitKeys /\ [][NextKeys]_vars

(***************************************************************************)
(* Properties                                                              *)
(***************************************************************************)
ResourceKey(resourceId) == createCompositeKey(RESOURCE_PREFIX, <<resourceId>>)
AccessKey(resourceId, orgId) ==
    createCompositeKey(ACCESS_PREFIX, <<resourceId, orgId>>)

\* orgId is the recorded owner of an existing resource
Owns(L, resourceId, orgId) ==
    /\ HasState(L, ResourceKey(resourceId))
    /\ getState(L, ResourceKey(resourceId)).ownerOrgId = orgId

\* active entry of type revoked in the runtime override layer
OverrideRevoked(orgId) ==
    /\ orgId \in DOMAIN attackState
    /\ attackState[orgId].active
    /\ attackState[orgId].attackType = "revoked"

QueryTx(t) == [time |-> t, txId |-> Tx1]

ReasonContainsRevoked(reason) ==
    reason \in {"organization revoked", "Organization is revoked",
                "Access has been revoked"}

IsGet == reply.fn = "GET /resource/:id"
IsGetMeta == reply.fn = "GET /resource/:id/meta"
StageNames == {reply.stages[i].stage : i \in 1..Len(reply.stages)}

\* C1: in every state, checkAccess for an organization that owns the resource
\* and is revoked (ledger flag or runtime override) returns hasAccess = false
\* with status DENIED.
C1_RevocationBeatsOwnership ==
    \A r \in ResourceIds, o \in OrgIds, t \in Times :
        (Owns(ledger, r, o) /\ (LedgerRevoked(ledger, o) \/ isOrgRevoked(o)))
        => LET res == checkAccess(ledger, QueryTx(t), r, o)
           IN  res.ok /\ res.ret.hasAccess = FALSE /\ res.ret.status = "DENIED"

\* C2: a GET /resource/:id for an existing resource, made by an organization
\* that the override layer holds as revoked and decided with the ledger
\* reachable, ends in 403 'Access denied' and sends no plaintext.
C2_OverrideRevokedGets403 ==
    (/\ IsGet
     /\ OverrideRevoked(reply.callerOrgId)
     /\ reply.accessVia = "fabric"
     /\ HasState(ledger, ResourceKey(reply.resourceId)))
    => /\ reply.status = 403
       /\ reply.error = "Access denied"
       /\ reply.body = NoPlaintext

\* C3: while the ledger holds an organization as revoked, checkAccess on every
\* existing resource returns hasAccess = false, status DENIED and a reason
\* containing 'revoked', whatever grants the organization holds.
C3_RevokedOrgDenied ==
    \A r \in ResourceIds, o \in OrgIds, t \in Times :
        (HasState(ledger, ResourceKey(r)) /\ LedgerRevoked(ledger, o))
        => LET res == checkAccess(ledger, QueryTx(t), r, o)
           IN  /\ res.ok
               /\ res.ret.hasAccess = FALSE
               /\ res.ret.status = "DENIED"
               /\ ReasonContainsRevoked(res.ret.reason)

IntegrityMismatch ==
    IsGet /\ "IntegrityCheck" \in StageNames /\ reply.fetched # reply.sha256

\* C4: when the SHA-256 of the fetched bytes differs from the stored sha256,
\* GET /resource/:id answers 500 'Integrity verification failed', runs no key
\* read, key resolution, decryption or respond stage, and sends no plaintext.
C4_IntegrityFailsClosed ==
    IntegrityMismatch
    => /\ reply.status = 500
       /\ reply.error = "Integrity verification failed"
       /\ StageNames \cap {"KeyMaterialFetch", "KeyResolution", "Decrypt",
                           "Respond"} = {}
       /\ reply.keySource = None
       /\ reply.body = NoPlaintext

C4_Witness ==
    /\ IntegrityMismatch
    /\ reply.status = 500
    /\ reply.access.hasAccess = TRUE

\* C5: when key resolution fails and the access decision did not say isOwner,
\* GET /resource/:id answers 403 'Decryption key unavailable' without any
\* decryption; the raw key is the decryption key exactly when key resolution
\* failed and the access decision said isOwner = true.
C5_RawKeyOnlyForOwner ==
    IsGet =>
        /\ (reply.keyResolution = "failed" /\ reply.access.isOwner = FALSE)
           => /\ reply.status = 403
              /\ reply.error = "Decryption key unavailable"
              /\ "Decrypt" \notin StageNames
              /\ reply.keySource = None
              /\ reply.body = NoPlaintext
        /\ (reply.keySource = "owner-raw-fallback")
           <=> (reply.keyResolution = "failed" /\ reply.access.isOwner = TRUE)

C5_Witness ==
    /\ IsGet
    /\ reply.keyResolution = "failed"
    /\ reply.access.isOwner = FALSE
    /\ reply.status = 403

\* C6: checkAccess gives the same decision for two organization ids that
\* differ only in letter case.
C6_CaseInsensitiveOrgId ==
    \A r \in ResourceIds, a \in CallerIds, b \in CallerIds, t \in Times :
        toLowerCase(a) = toLowerCase(b)
        => LET x == checkAccess(ledger, QueryTx(t), r, a)
               y == checkAccess(ledger, QueryTx(t), r, b)
           IN  /\ x.ok = y.ok
               /\ x.ok => /\ x.ret.hasAccess = y.ret.hasAccess
                          /\ x.ret.accessType = y.ret.accessType
                          /\ x.ret.reason = y.ret.reason

\* the last checkAccess was for a non-owner whose grant is active and ran out
\* before the transaction time
ExpiredActiveGrantQueried ==
    /\ reply.fn = "checkAccess"
    /\ reply.ok
    /\ ~Owns(ledger, reply.resourceId, reply.orgId)
    /\ HasState(ledger, AccessKey(reply.resourceId, reply.orgId))
    /\ LET g == getState(ledger, AccessKey(reply.resourceId, reply.orgId))
       IN  g.isActive /\ g.expiryTimestamp < reply.time

\* C7: for a non-owner whose grant is active but has an expiryTimestamp earlier
\* than the transaction time, checkAccess returns hasAccess = false with the
\* reason 'Access has expired'.
C7_ExpiredGrantDenied ==
    ExpiredActiveGrantQueried
    => /\ reply.ret.hasAccess = FALSE
       /\ reply.ret.reason = "Access has expired"

C7_Witness ==
    /\ ExpiredActiveGrantQueried
    /\ reply.ret.reason = "Access has expired"

\* the last checkAccess was for the non-revoked owner of the resource
OwnerQueried ==
    /\ reply.fn = "checkAccess"
    /\ reply.ok
    /\ Owns(ledger, reply.resourceId, reply.orgId)
    /\ ~LedgerRevoked(ledger, reply.orgId)
    /\ ~isOrgRevoked(reply.orgId)

\* C8: for the non-revoked owner of a resource checkAccess returns
\* hasAccess = true, isOwner = true, accessType 'owner', whatever grant record
\* exists for the owner on that resource.
C8_OwnershipShortCircuits ==
    OwnerQueried
    => /\ reply.ret.hasAccess = TRUE
       /\ reply.ret.isOwner = TRUE
       /\ reply.ret.accessType = "owner"

\* the owner holds a grant on its own resource that is revoked or has run out
C8_Witness ==
    /\ OwnerQueried
    /\ HasState(ledger, AccessKey(reply.resourceId, reply.orgId))
    /\ LET g == getState(ledger, AccessKey(reply.resourceId, reply.orgId))
       IN  ~g.isActive \/ g.expiryTimestamp < reply.time
    /\ reply.ret.isOwner = TRUE

\* the last request's access check was answered by the chaincode for a
\* resource the ledger does not hold
MissingResourceRequested ==
    /\ IsGet \/ IsGetMeta
    /\ reply.accessVia = "fabric"
    /\ ~HasState(ledger, ResourceKey(reply.resourceId))

\* C9: checkAccess on a resourceId with no ledger record throws ('does not
\* exist') instead of returning a decision, and GET /resource/:id and
\* GET /resource/:id/meta answer that failure with 404 'Resource not found'.
C9_MissingResourceIsNotFound ==
    /\ \A r \in QueryResourceIds, o \in CallerIds, t \in Times :
          ~HasState(ledger, ResourceKey(r))
          => LET res == checkAccess(ledger, QueryTx(t), r, o)
             IN  ~res.ok /\ IncludesDoesNotExist(res.error)
    /\ MissingResourceRequested
       => reply.status = 404 /\ reply.error = "Resource not found"

C9_Witness ==
    /\ MissingResourceRequested
    /\ IsGet
    /\ reply.status = 404

\* C10: the stages of one GET /resource/:id are an initial part of the fixed
\* order and every stage but the last one run succeeded; the blob is fetched
\* only after a decision with hasAccess = true, and a failed blob fetch is the
\* last stage of its request.
C10_StagesInOrder ==
    IsGet =>
        /\ Len(reply.stages) <= Len(StageOrder)
        /\ \A i \in 1..Len(reply.stages) :
              /\ reply.stages[i].stage = StageOrder[i]
              /\ i < Len(reply.stages) => reply.stages[i].ok
        /\ "BlobFetch" \in StageNames => reply.access.hasAccess = TRUE
        /\ \A i \in 1..Len(reply.stages) :
              (reply.stages[i].stage = "BlobFetch" /\ ~reply.stages[i].ok)
              => StageNames \cap {"KeyMaterialFetch", "KeyResolution"} = {}

C10_Witness ==
    /\ IsGet
    /\ Len(reply.stages) = Len(StageOrder)
    /\ reply.stages[Len(StageOrder)].ok
    /\ reply.status = 200

\* the last GET answered 200 and sent the decrypted resource
PlaintextSent == IsGet /\ reply.status = 200 /\ reply.body # NoPlaintext

\* C11: every GET /resource/:id that answers 200 with plaintext has submitted
\* a logAccess transaction, the streamed answer for large payloads included.
C11_EverySuccessIsLogged ==
    PlaintextSent => reply.audit # None

OrgKey(orgId) == createCompositeKey(ORG_PREFIX, <<orgId>>)

\* the last GET reached the respond stage and its logAccess did not commit
AuditNotCommitted ==
    /\ IsGet
    /\ "Respond" \in StageNames
    /\ reply.audit \in {"rejected", "failed"}

\* C12: once the respond stage has run the answer is 200 with the plaintext and
\* no error, whatever became of the logAccess submission; a rejected or lost
\* submission leaves no audit entry and changes nothing in the answer.
C12_AuditCannotChangeOutcome ==
    /\ (IsGet /\ "Respond" \in StageNames)
       => /\ reply.status = 200
          /\ reply.error = None
          /\ reply.body # NoPlaintext
          /\ reply.stages[Len(reply.stages)].ok
    /\ (IsGet /\ reply.audit # None) => "Respond" \in StageNames
    /\ (IsGet /\ reply.audit = "rejected")
       => \/ ~HasState(ledger, OrgKey(reply.callerOrgId))
          \/ ~HasState(ledger, ResourceKey(reply.resourceId))

\* the chaincode rejected logAccess because the caller has no organization
\* record, and the answer is still the plaintext
C12_Witness ==
    /\ AuditNotCommitted
    /\ reply.audit = "rejected"
    /\ ~HasState(ledger, OrgKey(reply.callerOrgId))
    /\ PlaintextSent

\* C13: revokeAccess on an inactive grant throws 'Access grant is already
\* revoked' and on a pair without grant throws 'No access grant found ...';
\* either way the world state is left as it was and no event is set.
C13_RevokeAccessErrors ==
    \A tx \in WriteTxCtx, r \in QueryResourceIds, g \in CallerIds :
        LET res == revokeAccess(ledger, tx, r, g)
            k == AccessKey(r, g)
        IN  /\ (HasState(ledger, k) /\ ~getState(ledger, k).isActive)
               => /\ ~res.ok
                  /\ res.error = "Access grant is already revoked"
                  /\ res.state = ledger
                  /\ res.event.name = None
            /\ ~HasState(ledger, k)
               => /\ ~res.ok
                  /\ res.error =
                        "No access grant found for organization <id> on resource <id>"
                  /\ res.state = ledger
                  /\ res.event.name = None

\* a second revokeAccess on the same grant has just been refused
C13_Witness ==
    /\ reply.fn = "revokeAccess"
    /\ ~reply.ok
    /\ reply.error = "Access grant is already revoked"
    /\ reply.event.name = None
    /\ \E r \in ResourceIds, g \in OrgIds :
          HasState(ledger, AccessKey(r, g)) /\ ~getState(ledger, AccessKey(r, g)).isActive

\* the decision checkAccess owes a non-owner holding exactly this active grant
DecisionOfGrant(d, expiry, accessType, t) ==
    IF JsLess(expiry, t)
    THEN d.hasAccess = FALSE /\ d.reason = "Access has expired"
    ELSE /\ d.hasAccess = TRUE
         /\ d.accessType = accessType
         /\ d.expiryTimestamp = expiry

\* C14: the grant of a (resourceId, granteeOrgId) pair lives under the one key
\* made of the pair, and grantAccess on a pair that already holds a grant
\* replaces it by a fresh active one whose expiry and type alone decide the
\* next checkAccess.
C14_RegrantOverwrites ==
    /\ \A k \in DOMAIN ledger :
          k[1] = ACCESS_PREFIX
          => k = AccessKey(ledger[k].resourceId, ledger[k].granteeOrgId)
    /\ \A tx \in WriteTxCtx, r \in ResourceIds, g \in OrgIds,
          e \in ExpiryArgs, a \in AccessTypeArgs :
          LET res == grantAccess(ledger, tx, r, g, e, a)
              k == AccessKey(r, g)
          IN  (HasState(ledger, k) /\ res.ok)
              => /\ DOMAIN res.state = DOMAIN ledger
                 /\ \A j \in DOMAIN ledger : j # k => res.state[j] = ledger[j]
                 /\ res.state[k].isActive
                 /\ res.state[k].expiryTimestamp = parseInt(e)
                 /\ res.state[k].accessType = toLowerCase(a)
                 /\ \A t \in Times :
                       ~Owns(ledger, r, g)
                       => DecisionOfGrant(checkAccess(res.state, QueryTx(t), r, g).ret,
                                          parseInt(e), toLowerCase(a), t)

\* a grant has just been written over an earlier grant of the same pair
C14_Witness ==
    /\ reply.fn = "grantAccess"
    /\ reply.ok
    /\ reply.existed
    /\ LET k == AccessKey(reply.ret.resourceId, reply.ret.granteeOrgId)
       IN  /\ ledger[k] = reply.ret
           /\ ledger[k].isActive
           /\ ledger[k].expiryTimestamp = MaxTime

\* C15: grantAccess returns only when the resource exists, the grantee has an
\* organization record and the access type, lowercased, is read, write or
\* admin, and then stores the lowercased type; when it throws it writes
\* nothing and sets no event.
C15_GrantAccessValidation ==
    \A tx \in WriteTxCtx, r \in ResourceIds, g \in CallerIds,
       e \in ExpiryArgs, a \in AccessTypeArgs :
        LET res == grantAccess(ledger, tx, r, g, e, a)
            valid == /\ HasState(ledger, ResourceKey(r))
                     /\ HasState(ledger, OrgKey(g))
                     /\ toLowerCase(a) \in {"read", "write", "admin"}
        IN  /\ res.ok => /\ valid
                         /\ res.state[AccessKey(r, g)].accessType = toLowerCase(a)
                         /\ res.event.name = "AccessGranted"
            /\ (valid /\ e # "") => res.ok
            /\ ~res.ok => /\ res.state = ledger
                          /\ res.event.name = None

\* an access type outside read, write, admin has just been refused
C15_Witness ==
    /\ reply.fn = "grantAccess"
    /\ ~reply.ok
    /\ reply.error = "Invalid access type. Must be one of: read, write, admin"
    /\ reply.event.name = None

\* C16: uploadMeta throws '... does not exist' when the owner has no
\* organization record and '... already exists' when the resourceId is taken;
\* either way the world state is left as it was.
C16_UploadMetaErrors ==
    \A tx \in WriteTxCtx, r \in QueryResourceIds, o \in CallerIds :
        LET res == uploadMeta(ledger, tx, r, o, "cid2", BadSha, "Patient")
        IN  /\ ~HasState(ledger, OrgKey(o))
               => /\ ~res.ok
                  /\ res.error = "Owner organization <id> does not exist"
                  /\ res.state = ledger
            /\ (HasState(ledger, OrgKey(o)) /\ HasState(ledger, ResourceKey(r)))
               => /\ ~res.ok
                  /\ res.error = "Resource <id> already exists"
                  /\ res.state = ledger

\* a second uploadMeta for a stored resourceId has just been refused
C16_Witness ==
    /\ reply.fn = "uploadMeta"
    /\ ~reply.ok
    /\ reply.error = "Resource <id> already exists"
    /\ \E r \in ResourceIds : HasState(ledger, ResourceKey(r))

\* C17: no step changes or removes a stored resource record.
C17_ResourcesImmutable ==
    [][\A r \in QueryResourceIds :
          HasState(ledger, ResourceKey(r))
          => /\ HasState(ledger', ResourceKey(r))
             /\ ledger'[ResourceKey(r)] = ledger[ResourceKey(r)]]_vars

\* a grant and an audit entry have been written beside a stored resource, the
\* audit entry just now
C17_Witness ==
    /\ HasState(ledger, ResourceKey("r1"))
    /\ \E g \in OrgIds : HasState(ledger, AccessKey("r1", g))
    /\ AuditCount(ledger) > 0
    /\ reply.fn = "logAccess"
    /\ reply.ok

\* C18: registerOrg for an orgId that has an organization record throws
\* 'Organization <id> already exists' and leaves the world state as it was,
\* and no step removes an organization record.
C18_DuplicateOrgRejected ==
    /\ [](\A tx \in WriteTxCtx, o \in CallerIds :
             HasState(ledger, OrgKey(o))
             => LET res == registerOrg(ledger, tx, o, "{}")
                IN  /\ ~res.ok
                    /\ res.error = "Organization <id> already exists"
                    /\ res.state = ledger)
    /\ [][/\ \A o \in CallerIds :
                HasState(ledger, OrgKey(o)) => HasState(ledger', OrgKey(o))
          /\ (reply'.fn = "registerOrg" /\ ~reply'.ok) => ledger' = ledger]_vars

\* a second registerOrg for a registered orgId has just been refused
C18_Witness ==
    /\ reply.fn = "registerOrg"
    /\ ~reply.ok
    /\ reply.error = "Organization <id> already exists"
    /\ \E o \in OrgIds : HasState(ledger, OrgKey(o))

\* C19: revokeOrg returns for an orgId with or without organization record;
\* afterwards the record exists with the orgId as given, isRevoked = true and
\* the given reason, what an existing record held besides is kept, and an
\* OrgRevoked event is set.
C19_RevokeOrgUpserts ==
    \A tx \in WriteTxCtx, o \in CallerIds, reason \in RevokeReasons :
        LET res == revokeOrg(ledger, tx, o, reason, "0")
            org == res.state[OrgKey(o)]
        IN  /\ res.ok
            /\ DOMAIN res.state = (DOMAIN ledger) \cup {OrgKey(o)}
            /\ \A j \in DOMAIN ledger : j # OrgKey(o) => res.state[j] = ledger[j]
            /\ org.orgId = o
            /\ org.isRevoked = TRUE
            /\ org.revocationReason = reason
            /\ org.docType = "organization"
            /\ res.event.name = "OrgRevoked"
            /\ res.event.orgId = o

\* revokeOrg has just created the record of an organization never registered
C19_Witness ==
    /\ reply.fn = "revokeOrg"
    /\ reply.ok
    /\ ~reply.existed
    /\ reply.event.name = "OrgRevoked"
    /\ LedgerRevoked(ledger, reply.ret.orgId)

C21_AuditAppendOnly ==
    [][/\ \A k \in AuditKeys(ledger) :
             HasState(ledger', k) /\ ledger'[k] = ledger[k]
       /\ (reply'.fn = "logAccess" /\ reply'.ok)
             => AuditCount(ledger') = AuditCount(ledger) + 1]_vars


\* C22: logAccess returns exactly when the resource and the actor's
\* organization record exist, whatever access the actor has to the resource;
\* otherwise it throws '... does not exist' and writes no audit entry.
C22_LogAccessNeedsNoAccess ==
    \A txId \in AuditTxIds, r \in QueryResourceIds, a \in AuditActors,
       act \in AuditActions :
        LET res == logAccess(ledger, [time |-> 0, txId |-> txId], r, a, act,
                             ToString(MaxTime))
            present == HasState(ledger, ResourceKey(r)) /\ HasState(ledger, OrgKey(a))
        IN  /\ res.ok <=> present
            /\ ~present => /\ IncludesDoesNotExist(res.error)
                            /\ res.state = ledger
                            /\ res.event.name = None

\* a 'DENIED' entry has just been written for an organization that
\* checkAccess refuses at every time
C22_Witness ==
    /\ reply.fn = "logAccess"
    /\ reply.ok
    /\ reply.ret.action = "DENIED"
    /\ reply.ret \in {ledger[k] : k \in AuditKeys(ledger)}
    /\ \A t \in Times :
          ~checkAccess(ledger, QueryTx(t), reply.ret.resourceId,
                       reply.ret.actorOrgId).ret.hasAccess


MutatingFns == {"registerOrg", "uploadMeta", "grantAccess", "revokeAccess",
                "logAccess", "revokeOrg", "reinstateOrg"}

\* C23: a state-mutating ledger operation that returns has set one event
\* that carries its eventType and the id of the transaction, and one that
\* throws has set none.
C23_MutationsEmitEvents ==
    reply.fn \in MutatingFns
    => IF reply.ok
       THEN /\ reply.event.name # None
            /\ reply.event.eventType = reply.event.name
            /\ reply.event.txId \in TxIds
       ELSE reply.event.name = None


\* C24: for a caller that is not the owner, a stored rekey record makes the
\* key the outcome of the reencrypt-then-decrypt round trip; with no rekey
\* record, whether its read threw or came back empty, a stored shared-key
\* record yields the shared key; with neither record key resolution fails.
C24_NonOwnerKeyResolution ==
    (reply.fn = "getDecryptableKey" /\ reply.callerOrgId # reply.ownerOrgId)
    => LET ext == reply.ext
           res == reply.res
       IN  /\ ext.rekey = "data"
               => /\ res.ok <=> (ext.reencrypt /\ ext.plaintext # "fail")
                  /\ res.ok => res.key = Key("pre", ext.plaintext)
           /\ (ext.rekey # "data" /\ ext.shared = "data")
               => /\ res.ok
                  /\ res.key = Key("shared", OwnerKeyBytes)
           /\ (ext.rekey # "data" /\ ext.shared # "data") => ~res.ok


\* C25: GET /resource/:id answers 503 'Storage service unavailable' only when
\* the preferred and the other gateway both failed, whichever gateway is the
\* preferred one; a fetch whose preferred gateway failed hands on the bytes
\* of the other gateway.
C25_BlobFetchFallsBack ==
    (IsGet /\ "BlobFetch" \in StageNames)
    => /\ (reply.status = 503 /\ reply.error = "Storage service unavailable")
           => reply.gateways = [primary |-> NoBlob, fallback |-> NoBlob]
       /\ \A ext \in IpfsExt :
             (ext.primary = NoBlob /\ ext.fallback # NoBlob)
             => LET res == fetchFromIPFS(useLocalIpfs, GoodCid, ext)
                IN  res.ok /\ res.data = ext.fallback


\* C26: when the access check of a GET /resource/:id allowed the caller and
\* queryResource then throws '... does not exist' or returns a record without
\* content id, the answer is 404, with the chaincode and with the stub
\* contract behind the client.
C26_MissingMetadataIsNotFound ==
    (IsGet /\ reply.metadata \in {"missing", "malformed"})
    => reply.status = 404


\* C27: GET /resource/:id/meta makes no call but checkAccess and
\* queryResource and leaves the ledger as it is; while the ledger calls
\* answer, it replies 400 without x-org-id, 403 when the decision has
\* hasAccess = false, 404 when the resource does not exist, and otherwise 200
\* with the metadata and the access decision.
C27_MetaProbeOnlyReads ==
    /\ [](IsGetMeta =>
            /\ reply.calls \in {<<>>, <<"checkAccess">>,
                                <<"checkAccess", "queryResource">>}
            /\ reply.status = 400 <=> reply.callerOrgId = ""
            /\ reply.status = 400 => reply.calls = <<>>
            /\ reply.status = 403 <=> (reply.checked /\ ~reply.access.hasAccess)
            /\ reply.status = 403 => reply.calls = <<"checkAccess">>
            /\ reply.status = 404 <=> reply.failure = "missing"
            /\ (reply.accessVia = "fabric"
                   /\ ~HasState(ledger, ResourceKey(reply.resourceId)))
               => reply.status = 404
            /\ reply.status = 200
               <=> (reply.checked /\ reply.access.hasAccess
                                 /\ reply.failure = None)
            /\ reply.status = 200
               => /\ reply.meta.resourceId = reply.resourceId
                  /\ reply.calls = <<"checkAccess", "queryResource">>)
    /\ [][reply'.fn = "GET /resource/:id/meta"
            => /\ ledger' = ledger
               /\ UNCHANGED <<attackState, revokedOrgs, useLocalIpfs>>]_vars

\* a probe by an organization the chaincode allows has been answered 200
C27_Witness ==
    /\ IsGetMeta
    /\ reply.status = 200
    /\ reply.accessVia = "fabric"
    /\ reply.access.hasAccess
    /\ reply.meta = getState(ledger, ResourceKey(reply.resourceId))
    /\ AuditCount(ledger) = 0


DenialReasons == {"No access grant found", "Access has been revoked",
                  "Access has expired", "organization revoked"}

\* C28: every GET /resource/:id answered 403 carries a reason out of the four
\* denial reasons, whichever step refused the caller.
C28_DenialReasonIsClosed ==
    (IsGet /\ reply.status = 403) => reply.reason \in DenialReasons


\* C29: a GET /resource/:id that is answered 403 has submitted a logAccess
\* transaction with action 'DENIED' for the resource and the caller, or the
\* ledger holds such an entry.
C29_DenialsAreLogged ==
    (IsGet /\ reply.status = 403)
    => \/ reply.audit # None
       \/ \E k \in AuditKeys(ledger) :
             /\ ledger[k].action = "DENIED"
             /\ ledger[k].resourceId = reply.resourceId
             /\ ledger[k].actorOrgId = reply.callerOrgId


\* C30: after any sequence of toggle, revoke-org, reinstate-org and clear
\* requests the revoked-set holds exactly the organizations whose override
\* entry is active with attackType 'revoked'.
C30_RevokedSetIsDerived ==
    revokedOrgs = {o \in DOMAIN attackState :
                      attackState[o].active /\ attackState[o].attackType = "revoked"}


IsRevokeOrgRoute == reply.fn = "POST /simulate-attack/revoke-org"

\* C31: a POST /simulate-attack/revoke-org that names an orgId is answered
\* 200 with a transaction id and a timestamp, and the org then has an active
\* override entry of type 'revoked', is in the revoked-set and isOrgRevoked
\* holds for it, whether the revokeOrg transaction committed or failed.
C31_RevokeOrgAlwaysOverrides ==
    IsRevokeOrgRoute
    => /\ reply.status \in {200, 400}
       /\ reply.status = 400 => reply.body = "orgId is required"
       /\ reply.status = 200
          => LET o == reply.body.orgId
             IN  /\ o # ""
                 /\ o \in revokedOrgs
                 /\ o \in DOMAIN attackState
                 /\ attackState[o] = AttackEntry(o, "revoked")
                 /\ isOrgRevoked(o)
                 /\ reply.body.txId \in TxIds \cup {StubTxId}
                 /\ reply.body.revokedAt \in Times

\* the revokeOrg transaction failed and the override is in place all the same
C31_Witness ==
    /\ IsRevokeOrgRoute
    /\ reply.status = 200
    /\ reply.body.chaincodeResult = "local-fallback"
    /\ reply.body.orgId \in revokedOrgs
    /\ ~LedgerRevoked(ledger, reply.body.orgId)


IsReinstateOrgRoute == reply.fn = "POST /simulate-attack/reinstate-org"

\* C32: a POST /simulate-attack/reinstate-org that names an orgId is answered
\* 200 and leaves the org in neither the attack-state map nor the
\* revoked-set, whether the reinstateOrg transaction committed or failed.
C32_ReinstateOrgAlwaysClears ==
    IsReinstateOrgRoute
    => /\ reply.status \in {200, 400}
       /\ reply.status = 400 => reply.body = "orgId is required"
       /\ reply.status = 200
          => LET o == reply.body.orgId
             IN  /\ o # ""
                 /\ o \notin revokedOrgs
                 /\ o \notin DOMAIN attackState
                 /\ ~isOrgRevoked(o)
                 /\ reply.body.reinstatedAt \in Times

\* the reinstateOrg transaction failed (the ledger still holds the org as
\* revoked) and the override is gone all the same
C32_Witness ==
    /\ IsReinstateOrgRoute
    /\ reply.status = 200
    /\ LedgerRevoked(ledger, reply.body.orgId)
    /\ reply.body.orgId \notin revokedOrgs


IsClearAttacks == reply.fn = "DELETE /simulate-attack"

\* C33: DELETE /simulate-attack leaves the attack-state map and the
\* revoked-set empty and answers with clearedCount equal to the number of
\* map entries that existed just before the call; a GET /simulate-attack
\* that follows lists no attacks and no revoked orgs.
C33_ClearEmptiesAndCounts ==
    /\ [](IsClearAttacks
           => /\ reply.status = 200
              /\ DOMAIN attackState = {}
              /\ revokedOrgs = {})
    /\ [][/\ IsClearAttacks'
             => reply'.body.clearedCount = Cardinality(DOMAIN attackState)
          /\ (IsClearAttacks /\ reply'.fn = "GET /simulate-attack")
             => /\ reply'.body.attacks = {}
                /\ reply'.body.revokedOrgs = {}]_vars

\* a clear that found two override entries, one of them a revoked org
C33_Witness ==
    /\ IsClearAttacks
    /\ reply.body.clearedCount = 2
    /\ DOMAIN attackState = {}
    /\ revokedOrgs = {}


\* what the override layer holds for one org
OverrideOf(o) ==
    [entry |-> IF o \in DOMAIN attackState THEN attackState[o].attackType ELSE None,
     revoked |-> o \in revokedOrgs]

NoOverride == [entry |-> None, revoked |-> FALSE]

IsToggle == reply.fn = "POST /simulate-attack"
IsGetAttacks == reply.fn = "GET /simulate-attack"

\* C34: under every interleaving of toggle, revoke-org, reinstate-org and
\* clear requests, with revoke-org and reinstate-org suspended on their
\* ledger call before they write, the override state of an org is the effect
\* of the request that wrote it last: the state changes only in the step in
\* which a request writes, only for the org that request names (every org
\* for a clear), the state the writer leaves is its own effect whatever was
\* in flight, and a read that follows lists exactly that state.
C34_LastWriterWins ==
    /\ [](  /\ (IsRevokeOrgRoute /\ reply.status = 200)
               => OverrideOf(reply.body.orgId) = [entry |-> "revoked", revoked |-> TRUE]
            /\ (IsReinstateOrgRoute /\ reply.status = 200)
               => OverrideOf(reply.body.orgId) = NoOverride
            /\ (IsToggle /\ reply.status = 200)
               => IF reply.body.attackActive
                  THEN /\ OverrideOf(reply.body.orgId).entry = reply.body.attackType
                       /\ (reply.body.attackType = "revoked"
                           => OverrideOf(reply.body.orgId).revoked)
                  ELSE OverrideOf(reply.body.orgId) = NoOverride
            /\ IsClearAttacks => \A o \in RaceOrgIds : OverrideOf(o) = NoOverride
            /\ IsGetAttacks
               => /\ {a.id : a \in reply.body.attacks} = DOMAIN attackState
                  /\ \A a \in reply.body.attacks :
                         a.attackType = attackState[a.id].attackType
                  /\ reply.body.revokedOrgs = revokedOrgs)
    /\ [][\A o \in RaceOrgIds :
             OverrideOf(o)' # OverrideOf(o)
             => /\ pending' \subseteq pending
                /\ reply'.status = 200
                /\ \/ reply'.fn = "DELETE /simulate-attack"
                   \/ /\ reply'.fn \in {"POST /simulate-attack",
                                         "POST /simulate-attack/revoke-org",
                                         "POST /simulate-attack/reinstate-org"}
                      /\ reply'.body.orgId = o]_vars

\* a reinstate-org finished and wrote last while a revoke-org for the same
\* org, already committed on the ledger, is still suspended
C34_Witness ==
    /\ IsReinstateOrgRoute
    /\ reply.status = 200
    /\ OverrideOf(reply.body.orgId) = NoOverride
    /\ \E r \in pending :
          /\ r.fn = "revoke-org"
          /\ r.orgId = reply.body.orgId
          /\ r.pos = "settled"
          /\ r.chaincodeResult = "revoked-on-ledger"

\* C39: in every reachable state of the override layer, under every
\* interleaving of toggle, revoke-org, reinstate-org and clear requests,
\* each org in the revoked-set has an entry in the attack-state map; so a
\* GET /simulate-attack never lists a revoked org without an attack entry
\* for it and clearedCount is never below the number of revoked orgs.
C39_RevokedOrgsHaveEntries ==
    /\ [](  /\ revokedOrgs \subseteq DOMAIN attackState
            /\ IsGetAttacks
               => \A o \in reply.body.revokedOrgs :
                     \E a \in reply.body.attacks : a.id = o)
    /\ [][(IsClearAttacks' /\ pending' = pending)
          => reply'.body.clearedCount >= Cardinality(revokedOrgs)]_vars

\* a revoked org whose entry a later toggle has written over, with a request
\* still in flight
C39_Witness ==
    /\ revokedOrgs = {"lab"}
    /\ "lab" \in DOMAIN attackState
    /\ attackState["lab"].attackType = "compromised"
    /\ pending # {}


IsShareGrant == reply.fn = "POST /share/grant"

ShareRequestComplete ==
    /\ reply.request.callerOrgId # ""
    /\ reply.request.resourceId # ""
    /\ reply.request.orgId # ""

\* C35: POST /share/grant answers 400 exactly when x-org-id, resourceId or
\* orgId is missing; with all three present, an existing resource, a
\* registered grantee and a ledger that answers it replies 200; and after a
\* 200 the ledger holds an active grant for (resourceId, lowercased orgId) so
\* that checkAccess for that org returns hasAccess = true.
C35_ShareGrantLeavesGrant ==
    IsShareGrant
    => LET resourceId == reply.request.resourceId
           orgId == toLowerCase(reply.request.orgId)
       IN  /\ reply.status \in {200, 400, 500}
           /\ reply.status = 400 <=> ~ShareRequestComplete
           /\ reply.status = 200
              => /\ HasState(ledger, AccessKey(resourceId, orgId))
                 /\ getState(ledger, AccessKey(resourceId, orgId)).isActive
                 /\ checkAccess(ledger, QueryTx(0), resourceId, orgId).ok
                 /\ checkAccess(ledger, QueryTx(0), resourceId, orgId).ret.hasAccess
           /\ ( /\ ShareRequestComplete
                /\ reply.via = "fabric"
                /\ HasState(ledger, ResourceKey(resourceId))
                /\ HasState(ledger, OrgKey(orgId)) )
              => reply.status = 200


\* C36: for a 12-byte iv, a 16-byte authTag and a ciphertext of any length,
\* the empty one included, unpackEncrypted(packEncrypted(...)) gives back the
\* same three components and the packed buffer is 28 + Len(ciphertext) bytes
\* long; unpackEncrypted on fewer than 28 bytes fails with 'Packed data too
\* short'.
C36_EnvelopeRoundTrip ==
    /\ reply.fn = "packEncrypted"
       => /\ Len(reply.input.iv) = 12 /\ Len(reply.input.authTag) = 16
          /\ Len(reply.packed) = 28 + Len(reply.input.ciphertext)
          /\ reply.unpacked.ok
          /\ reply.unpacked.iv = reply.input.iv
          /\ reply.unpacked.authTag = reply.input.authTag
          /\ reply.unpacked.ciphertext = reply.input.ciphertext
    /\ (reply.fn = "unpackEncrypted" /\ Len(reply.input) < 28)
       => /\ ~reply.unpacked.ok
          /\ reply.unpacked.error = "Packed data too short"

\* the round trip of an envelope with an empty ciphertext
C36_Witness ==
    /\ reply.fn = "packEncrypted"
    /\ reply.input.ciphertext = <<>>
    /\ Len(reply.packed) = 28
    /\ reply.unpacked.ok
    /\ reply.unpacked.iv # SubSeq(reply.unpacked.authTag, 1, 12)


IsCheckAccess == reply.fn = "checkAccess"

C38_ExpiryIsStrict ==
    ( /\ IsCheckAccess
      /\ reply.ok
      /\ ~Owns(ledger, reply.resourceId, reply.orgId)
      /\ HasState(ledger, AccessKey(reply.resourceId, reply.orgId))
      /\ getState(ledger, AccessKey(reply.resourceId, reply.orgId)).isActive )
    => LET grant == getState(ledger, AccessKey(reply.resourceId, reply.orgId))
       IN  IF grant.expiryTimestamp # NaN /\ reply.time > grant.expiryTimestamp
           THEN /\ ~reply.ret.hasAccess
                /\ reply.ret.reason = "Access has expired"
           ELSE /\ reply.ret.hasAccess
                /\ reply.ret.isOwner = FALSE
                /\ reply.ret.accessType = grant.accessType
                /\ reply.ret.expiryTimestamp = grant.expiryTimestamp

\* an active grant checked at the very time it runs out
C38_Witness ==
    /\ IsCheckAccess
    /\ reply.ok
    /\ reply.ret.hasAccess
    /\ reply.ret.isOwner = FALSE
    /\ reply.time = 1
    /\ reply.ret.expiryTimestamp = reply.time

====
